---------------------------- MODULE Spec2Model ----------------------------
(***************************************************************************)
(* The scanner of the Unholy front end (class Scanner), as a state machine.*)
(* The source text is a sequence of UTF-16 code units (numbers); the       *)
(* scanner state is pos, tokenStart, line, lineStart and the stack of      *)
(* saved states.  nextToken, lookAhead and tryScan are the operations; a   *)
(* callback handed to lookAhead or tryScan runs between the Begin and the  *)
(* End step of that call, and may itself call nextToken, lookAhead and     *)
(* tryScan.  A second specification, SpecMain, is the token-dump loop of   *)
(* main().                                                                 *)
(***************************************************************************)
EXTENDS Integers, Sequences, FiniteSets, TLC

VARIABLES
    text,        \* Scanner.text: the program's full raw text
    pos,         \* Scanner.pos
    tokenStart,  \* Scanner.tokenStart
    line,        \* Scanner.line
    lineStart,   \* Scanner.lineStart
    stateStack,  \* Scanner.stateStack
    frames,      \* the lookAhead/tryScan calls whose callback is running
    status,      \* "ready", "thrown" (an error left the scanner), "hung", "done"
    ret,         \* what the last step did
    eofEver,     \* history: some nextToken call has returned EndOfFileToken
    output,      \* main(): the elements printed so far
    parser       \* Parser: its fields, the nodes it has made, how parseFile stands

vars == <<text, pos, tokenStart, line, lineStart, stateStack, frames,
          status, ret, eofEver, output, parser>>

-----------------------------------------------------------------------------
(* Bounds of the model *)

\* the longest source text main() is given
MaxLen == 4
\* the longest source text scanned under callbacks
MaxCbLen == 3
\* the deepest nesting of lookAhead/tryScan callbacks
MaxDepth == 2

\* parseFile: the operands of the longest expression and the deepest nesting
\* of statements in the programs parsed
MaxOperands == 3
MaxNest == 2

\* the tokens of the longest text the parser's look-ahead methods are called on
MaxTokens == 3

\* the longest text scanDigits is called on
MaxDigits == 3

-----------------------------------------------------------------------------
(* types/char-codes: CharCodes *)

\* what charCodeAt and codePointAt give outside the text (NaN, undefined):
\* a value that fails every comparison the scanner makes
NaN == -1
LineFeed == 10
CarriageReturn == 13
Space == 32
Tab == 9
VerticalTab == 11
OpenBrace == 123
CloseBrace == 125
OpenParen == 40
CloseParen == 41
Semicolon == 59
Comma == 44
Colon == 58
Equals == 61
Plus == 43
Minus == 45
LessThan == 60
GreaterThan == 62
Dollar == 36
Underscore == 95
MaxAscii == 127
Char_0 == 48
Char_1 == 49
Char_2 == 50
Char_7 == 55
Char_8 == 56
Char_9 == 57
Char_a == 97
Char_f == 102
Char_z == 122
Char_A == 65
Char_F == 70
Char_Z == 90

-----------------------------------------------------------------------------
(* utils/text *)

charSize(char) == IF char >= 65536 THEN 2 ELSE 1

isIdentifierStart(charCode) ==
    \/ charCode >= Char_a /\ charCode <= Char_z
    \/ charCode >= Char_A /\ charCode <= Char_Z
    \/ charCode = Underscore
    \/ charCode = Dollar
    \/ charCode > MaxAscii

isIdentifierPart(charCode) ==
    \/ isIdentifierStart(charCode)
    \/ charCode >= Char_0 /\ charCode <= Char_9

-----------------------------------------------------------------------------
(* lexer/token-maps *)

futureReservedWords ==
    {
      <<97, 98, 115, 116, 114, 97, 99, 116>>,  \* abstract
      <<97, 115, 121, 110, 99>>,  \* async
      <<97, 116, 111, 109, 105, 99>>,  \* atomic
      <<97, 116, 116, 114, 105, 98, 117, 116, 101>>,  \* attribute
      <<97, 119, 97, 105, 116>>,  \* await
      <<98, 114, 101, 97, 107>>,  \* break
      <<99, 108, 97, 115, 115>>,  \* class
      <<100, 111>>,  \* do
      <<98, 121, 116, 101>>,  \* byte
      <<99, 104, 97, 114>>,  \* char
      <<99, 111, 109, 112, 108, 101, 120>>,  \* complex
      <<99, 111, 110, 116, 105, 110, 117, 101>>,  \* continue
      <<100, 101, 99, 108, 97, 114, 101>>,  \* declare
      <<100, 111, 117, 98, 108, 101>>,  \* double
      <<101, 110, 117, 109>>,  \* enum
      <<101, 120, 112, 111, 114, 116>>,  \* export
      <<101, 120, 112, 111, 115, 101, 100>>,  \* exposed
      <<101, 120, 116, 101, 110, 100, 115>>,  \* extends
      <<101, 120, 116, 101, 114, 110>>,  \* extern
      <<102, 105, 110, 97, 108>>,  \* final
      <<102, 108, 111, 97, 116>>,  \* float
      <<102, 111, 114>>,  \* for
      <<102, 114, 111, 109>>,  \* from
      <<103, 111, 116, 111>>,  \* goto
      <<105, 109, 112, 108, 101, 109, 101, 110, 116, 115>>,  \* implements
      <<105, 109, 112, 111, 114, 116>>,  \* import
      <<105, 110, 108, 105, 110, 101>>,  \* inline
      <<105, 110, 116, 101, 114, 102, 97, 99, 101>>,  \* interface
      <<108, 111, 99, 97, 108>>,  \* local
      <<108, 111, 110, 103>>,  \* long
      <<110, 97, 109, 101, 115, 112, 97, 99, 101>>,  \* namespace
      <<110, 101, 119>>,  \* new
      <<110, 117, 108, 108>>,  \* null
      <<111, 102>>,  \* of
      <<111, 112, 101, 114, 97, 116, 111, 114>>,  \* operator
      <<112, 114, 105, 118, 97, 116, 101>>,  \* private
      <<112, 114, 111, 116, 101, 99, 116, 101, 100>>,  \* protected
      <<112, 117, 98, 108, 105, 99>>,  \* public
      <<115, 104, 111, 114, 116>>,  \* short
      <<115, 116, 97, 116, 105, 99>>,  \* static
      <<115, 116, 114, 117, 99, 116>>,  \* struct
      <<115, 117, 112, 101, 114>>,  \* super
      <<115, 121, 110, 99, 104, 114, 111, 110, 105, 122, 101, 100>>,  \* synchronized
      <<115, 116, 114, 105, 110, 103>>,  \* string
      <<116, 104, 105, 115>>,  \* this
      <<116, 121, 112, 101>>,  \* type
      <<117, 98, 121, 116, 101>>,  \* ubyte
      <<117, 105, 110, 116>>,  \* uint
      <<117, 108, 111, 110, 103>>,  \* ulong
      <<117, 115, 104, 111, 114, 116>>,  \* ushort
      <<118, 101, 99, 50>>,  \* vec2
      <<118, 101, 99, 51>>,  \* vec3
      <<118, 101, 99, 52>>,  \* vec4
      <<119, 104, 105, 108, 101>>,  \* while
      <<119, 105, 116, 104>>   \* with
    }

\* a word list that misses its two-letter entries
isFutureReserveWordLong(identifier) ==
    identifier \in futureReservedWords /\ Len(identifier) > 2

isFutureReserveWord(identifier) == identifier \in futureReservedWords

textToKeywordObj ==
    {
      <<<<98, 111, 111, 108>>, "BoolKeyword">>,  \* bool
      <<<<101, 108, 115, 101>>, "ElseKeyword">>,  \* else
      <<<<102, 97, 108, 115, 101>>, "FalseKeyword">>,  \* false
      <<<<102, 117, 110, 99>>, "FuncKeyword">>,  \* func
      <<<<105, 102>>, "IfKeyword">>,  \* if
      <<<<105, 110, 116>>, "IntKeyword">>,  \* int
      <<<<108, 101, 116>>, "LetKeyword">>,  \* let
      <<<<114, 101, 116, 117, 114, 110>>, "ReturnKeyword">>,  \* return
      <<<<116, 114, 117, 101>>, "TrueKeyword">>,  \* true
      <<<<118, 111, 105, 100>>, "VoidKeyword">>   \* void
    }

\* Map.get: the keyword kind, or "undefined"
stringToKeyword(str) ==
    IF \E e \in textToKeywordObj : e[1] = str
    THEN (CHOOSE e \in textToKeywordObj : e[1] = str)[2]
    ELSE "undefined"

-----------------------------------------------------------------------------
(* lexer/scanner: the pure part.  A scanner state st is the record of     *)
(* pos, tokenStart, line and lineStart; t is the text.                    *)

\* the length of the program text
End(t) == Len(t)

\* String.charCodeAt / codePointAt (every character modelled is one unit)
charCodeAt(t, p) == IF p >= 0 /\ p < Len(t) THEN t[p + 1] ELSE NaN

\* String.substring(a, b)
substring(t, a, b) ==
    LET lo == IF a < b THEN a ELSE b
        hi == IF a < b THEN b ELSE a
        hc == IF hi > Len(t) THEN Len(t) ELSE hi
    IN  SubSeq(t, lo + 1, hc)

\* makeElem called without a text
Undefined == <<NaN>>

makeElem(st, kind, txt) ==
    [ kind    |-> kind,
      line    |-> st.line,
      column  |-> st.tokenStart - st.lineStart + 1,
      pos     |-> st.tokenStart,
      length  |-> st.pos - st.tokenStart,
      rawText |-> txt ]

NoElem ==
    [ kind |-> "none", line |-> 0, column |-> 0, pos |-> 0, length |-> 0,
      rawText |-> Undefined ]

\* the switch of scanDigits without the cases of the capital letters
isDigitOfRadixNoCapitals(c, radix) ==
    CASE c >= Char_a /\ c <= Char_f
             -> radix >= 16
      [] c = Char_8 \/ c = Char_9
             -> radix >= 10
      [] c >= Char_2 /\ c <= Char_7
             -> radix >= 8
      [] c = Char_0 \/ c = Char_1
             -> TRUE
      [] OTHER -> FALSE

\* the switch of scanDigits: whether the character continues the run
isDigitOfRadix(c, radix) ==
    CASE (c >= Char_a /\ c <= Char_f) \/ (c >= Char_A /\ c <= Char_F)
             -> radix >= 16
      [] c = Char_8 \/ c = Char_9
             -> radix >= 10
      [] c >= Char_2 /\ c <= Char_7
             -> radix >= 8
      [] c = Char_0 \/ c = Char_1
             -> TRUE
      [] OTHER -> FALSE

\* the loop of scanDigits: the position it stops at
RECURSIVE scanDigitsLoop(_, _, _)
scanDigitsLoop(t, p, radix) ==
    IF isDigitOfRadix(charCodeAt(t, p), radix)
    THEN scanDigitsLoop(t, p + 1, radix)
    ELSE p

scanDigits(t, st, radix) ==
    LET stop == scanDigitsLoop(t, st.pos, radix)
    IN  [ st  |-> [st EXCEPT !.pos = stop],
          str |-> substring(t, st.pos, stop) ]

getIdentifierToken(str) ==
    IF charCodeAt(str, 0) >= Char_a /\ charCodeAt(str, 0) <= Char_z
       /\ stringToKeyword(str) # "undefined"
    THEN stringToKeyword(str)
    ELSE "Identifier"

\* the Space/Tab case: the position after the run of spaces and tabs
RECURSIVE skipBlanks(_, _)
skipBlanks(t, p) ==
    IF charCodeAt(t, p) = Space \/ charCodeAt(t, p) = Tab
    THEN skipBlanks(t, p + 1)
    ELSE p

\* the do-while going on only over identifier-start characters
RECURSIVE identifierLoopNoDigits(_, _)
identifierLoopNoDigits(t, p) ==
    LET p1 == p + charSize(charCodeAt(t, p))
    IN  IF isIdentifierStart(charCodeAt(t, p1)) /\ p1 < End(t)
        THEN identifierLoopNoDigits(t, p1)
        ELSE p1

\* the do-while of the identifier branch, entered with char at position p
RECURSIVE identifierLoop(_, _)
identifierLoop(t, p) ==
    LET p1 == p + charSize(charCodeAt(t, p))
    IN  IF isIdentifierPart(charCodeAt(t, p1)) /\ p1 < End(t)
        THEN identifierLoop(t, p1)
        ELSE p1

Returned(st, elem) == [ type |-> "elem", st |-> st, elem |-> elem,
                        msg |-> "", word |-> <<>> ]
Null(st) == [ type |-> "null", st |-> st, elem |-> NoElem,
              msg |-> "", word |-> <<>> ]
Thrown(st, msg, word, elem) ==
    [ type |-> "throw", st |-> st, elem |-> elem, msg |-> msg, word |-> word ]
Diverged(st) == [ type |-> "diverge", st |-> st, elem |-> NoElem,
                  msg |-> "", word |-> <<>> ]

\* a one-character token: this.pos++; return this.makeElem(kind)
single(st, kind) ==
    LET s1 == [st EXCEPT !.pos = st.pos + 1]
    IN  Returned(s1, makeElem(s1, kind, Undefined))

\* the Equals case
equalsCase(t, st) ==
    LET s1 == [st EXCEPT !.pos = st.pos + 1]
        s2 == [s1 EXCEPT !.pos = s1.pos + 1]
    IN  IF charCodeAt(t, s1.pos + 1) = Equals
        THEN Returned(s2, makeElem(s2, "EqualsEqualsToken", Undefined))
        ELSE Returned(s1, makeElem(s1, "EqualsToken", Undefined))

\* a carriage return skipped like a blank
carriageReturnSkipped(st) == Null([st EXCEPT !.pos = st.pos + 1])

\* the CarriageReturn case
carriageReturnCase(st) ==
    Thrown(st, "FATAL: Windows encountered", <<>>,
           makeElem(st, "Unknown", <<Space>>))

\* the identifier branch
identifierCase(t, st) ==
    LET s1    == [st EXCEPT !.pos = identifierLoop(t, st.pos)]
        value == substring(t, st.pos, s1.pos)
        elem  == makeElem(s1, getIdentifierToken(value), value)
    IN  IF elem.kind = "Identifier" /\ isFutureReserveWord(value)
        THEN Thrown(s1, "is a reserved keyword", value,
                    [elem EXCEPT !.kind = "Unknown"])
        ELSE Returned(s1, elem)

nextTokenSingle(t, st) ==
    LET char == charCodeAt(t, st.pos)
    IN  CASE char = CarriageReturn -> carriageReturnCase(st)
          [] char = LineFeed ->
                 Null([st EXCEPT !.pos = st.pos + 1,
                                 !.line = st.line + 1,
                                 !.lineStart = st.pos + 1])
          [] char = Space \/ char = Tab ->
                 Null([st EXCEPT !.pos = skipBlanks(t, st.pos)])
          [] char = OpenBrace   -> single(st, "OpenBraceToken")
          [] char = CloseBrace  -> single(st, "CloseBraceToken")
          [] char = OpenParen   -> single(st, "OpenParenToken")
          [] char = CloseParen  -> single(st, "CloseParenToken")
          [] char = Semicolon   -> single(st, "SemicolonToken")
          [] char = Comma       -> single(st, "CommaToken")
          [] char = Colon       -> single(st, "ColonToken")
          [] char = Equals      -> equalsCase(t, st)
          [] char = Plus        -> single(st, "PlusToken")
          [] char = Minus       -> single(st, "MinusToken")
          [] char = LessThan    -> single(st, "LessThanToken")
          [] char = GreaterThan -> single(st, "GreaterThanToken")
          [] char >= Char_0 /\ char <= Char_9 ->
                 LET num == scanDigits(t, st, 10)
                 IN  Returned(num.st, makeElem(num.st, "IntegerLiteral", num.str))
          [] OTHER ->
                 IF isIdentifierStart(char)
                 THEN identifierCase(t, st)
                 ELSE Null(st)

\* the while loop followed by an EndOfFileToken that takes a character
RECURSIVE nextTokenLoopEofAdvances(_, _)
nextTokenLoopEofAdvances(t, st) ==
    IF st.pos < End(t)
    THEN LET s1 == [st EXCEPT !.tokenStart = st.pos]
             r  == nextTokenSingle(t, s1)
         IN  IF r.type = "null"
             THEN IF r.st = s1 THEN Diverged(s1)
                               ELSE nextTokenLoopEofAdvances(t, r.st)
             ELSE r
    ELSE Returned([st EXCEPT !.pos = st.pos + 1],
                  makeElem(st, "EndOfFileToken", <<>>))

\* the while loop of nextToken.  An iteration that returns null and leaves
\* the state as it found it is repeated for ever: the call never returns.
RECURSIVE nextTokenLoop(_, _)
nextTokenLoop(t, st) ==
    IF st.pos < End(t)
    THEN LET s1 == [st EXCEPT !.tokenStart = st.pos]
             r  == nextTokenSingle(t, s1)
         IN  IF r.type = "null"
             THEN IF r.st = s1 THEN Diverged(s1) ELSE nextTokenLoop(t, r.st)
             ELSE r
    ELSE Returned(st, makeElem(st, "EndOfFileToken", <<>>))

nextToken(t, st) == nextTokenLoop(t, st)

-----------------------------------------------------------------------------
(* lexer/scanner: the object *)

\* the four fields a ScannerState holds, as they are now
Current ==
    [ pos |-> pos, tokenStart |-> tokenStart, line |-> line,
      lineStart |-> lineStart ]

\* storeState: the stack after the push
storeState(stack, st) ==
    Append(stack,
           [ pos |-> st.pos, line |-> st.line, lineStart |-> st.lineStart,
             tokenStart |-> st.tokenStart ])

\* restoreState that forgets tokenStart
restoreStateKeepsTokenStart(stack, st) ==
    IF Len(stack) = 0
    THEN st
    ELSE LET state == stack[Len(stack)]
         IN  [ pos |-> state.pos, line |-> state.line,
               lineStart |-> state.lineStart,
               tokenStart |-> st.tokenStart ]

\* restoreState: the fields after the pop (unchanged on an empty stack)
restoreState(stack, st) ==
    IF Len(stack) = 0
    THEN st
    ELSE LET state == stack[Len(stack)]
         IN  [ pos |-> state.pos, line |-> state.line,
               lineStart |-> state.lineStart,
               tokenStart |-> state.tokenStart ]

\* tryScan with its test turned round
tryScanResultInverted(stack, st, truthy) ==
    IF truthy
    THEN IF Len(stack) = 0 THEN st
         ELSE [ pos |-> stack[Len(stack)].pos,
                line |-> stack[Len(stack)].line,
                lineStart |-> stack[Len(stack)].lineStart,
                tokenStart |-> stack[Len(stack)].tokenStart ]
    ELSE st

\* tryScan after fn returned: the fields it leaves
tryScanResult(stack, st, truthy) ==
    IF truthy THEN st ELSE restoreState(stack, st)

\* a pop that leaves the saved state on the stack
popStateKeepsState(stack) == stack

\* Array.pop: the stack after restoreState or popState
popState(stack) ==
    IF Len(stack) = 0 THEN stack ELSE SubSeq(stack, 1, Len(stack) - 1)

\* the do-while of getLineContent after ++lineEnd gave lineEnd: the offset
\* of the line feed or carriage return it stops at.  Past the end of the
\* text charCodeAt is NaN for ever, which is neither, and the loop goes on
\* without end: -1
RECURSIVE lineEndLoop(_, _)
lineEndLoop(t, lineEnd) ==
    IF charCodeAt(t, lineEnd) = LineFeed
           \/ charCodeAt(t, lineEnd) = CarriageReturn
    THEN lineEnd
    ELSE IF lineEnd >= End(t) THEN -1
    ELSE lineEndLoop(t, lineEnd + 1)

\* getLineContent(): what it returns, unless it never returns
getLineContent(t, st) ==
    IF lineEndLoop(t, st.pos + 1) = -1
    THEN [ type |-> "diverge", str |-> <<>> ]
    ELSE [ type |-> "return",
           str |-> substring(t, st.lineStart, lineEndLoop(t, st.pos + 1)) ]

\* the characters the texts of the scanner's clients are drawn from
Alphabet ==
    { Equals, Space, LineFeed, CarriageReturn, VerticalTab, Char_1,
      42, 105, 102, 73 }    \* * i f I

\* the characters of the texts scanned under callbacks
CallbackAlphabet == { Equals, LineFeed, 111, 102 }    \* o f

Texts(A, n) == UNION { [1..k -> A] : k \in 0..n }

\* let while = 1;
LetWhile == <<108, 101, 116, 32, 119, 104, 105, 108, 101, 32, 61, 32, 49, 59>>

Samples == { LetWhile }

NoState == [ pos |-> 0, tokenStart |-> 0, line |-> 0, lineStart |-> 0 ]

NoRet ==
    [ op |-> "none", outcome |-> "none", elem |-> NoElem, msg |-> "",
      word |-> <<>>, from |-> NoState, mid |-> NoState, truthy |-> FALSE,
      nested |-> FALSE, depth |-> 0, eofBefore |-> FALSE ]

\* types/parser: ParsingContextFlags
SourceElements == 1
BlockStatements == 2
VarDeclarations == 4
FuncDeclarations == 8
ParameterDeclarations == 16
SignatureDeclarations == 32
ArgExpressions == 64

\* a number field no statement has set (undefined)
UndefinedNumber == -2

\* utils/errors: no error raised
NoError == [ type |-> "none", msg |-> "", what |-> "", elem |-> NoElem ]

\* new Parser(): the fields of a parser no parseFile call has touched
NoParser ==
    [ phase |-> "idle", token |-> NoElem,
      context |-> SourceElements, contextStack |-> <<>>,
      parent |-> 0, parentStack |-> <<>>,
      sourceFile |-> 0, nodes |-> <<>>,
      error |-> NoError, events |-> <<>>, restored |-> TRUE,
      warned |-> FALSE, diagnostics |-> <<>>,
      calls |-> <<>>, running |-> 0 ]

\* new Scanner(text)
InitScanner ==
    /\ pos = 0
    /\ tokenStart = 0
    /\ line = 1
    /\ lineStart = 0
    /\ stateStack = <<>>
    /\ frames = <<>>
    /\ status = "ready"
    /\ ret = NoRet
    /\ eofEver = FALSE
    /\ output = <<>>
    /\ parser = NoParser

Init ==
    /\ text \in Texts(CallbackAlphabet, MaxCbLen) \cup Samples
    /\ InitScanner

\* the fields after a call that left the scanner in state st
SetState(st) ==
    /\ pos' = st.pos
    /\ tokenStart' = st.tokenStart
    /\ line' = st.line
    /\ lineStart' = st.lineStart

\* what a nextToken call with result r leaves behind.  An error propagates
\* through every lookAhead and tryScan on the call stack, none of which
\* catches it: their callbacks are abandoned and their saved states stay on
\* the stack.
NextTokenEffect(r) ==
    /\ SetState(r.st)
    /\ ret' = [ op |-> "nextToken",
                outcome |-> CASE r.type = "elem" -> "return"
                              [] r.type = "throw" -> "throw"
                              [] OTHER -> "diverge",
                elem |-> r.elem, msg |-> r.msg, word |-> r.word,
                from |-> Current, mid |-> Current, truthy |-> FALSE,
                nested |-> FALSE, depth |-> Len(frames),
                eofBefore |-> eofEver ]
    /\ frames' = IF r.type = "elem" THEN frames ELSE <<>>
    /\ eofEver' = (eofEver \/ (r.type = "elem" /\ r.elem.kind = "EndOfFileToken"))

\* scanner.nextToken()
NextToken ==
    /\ status = "ready"
    /\ LET r == nextToken(text, Current)
       IN  /\ NextTokenEffect(r)
           /\ status' = CASE r.type = "elem" -> "ready"
                          [] r.type = "throw" -> "thrown"
                          [] OTHER -> "hung"
    /\ UNCHANGED <<text, stateStack, output, parser>>

\* a callback is entered: op(fn) has stored the state and calls fn
Enter(op) ==
    /\ status = "ready"
    /\ Len(frames) < MaxDepth
    /\ stateStack' = storeState(stateStack, Current)
    /\ frames' = Append(frames, [ op |-> op, entry |-> Current,
                                  nested |-> FALSE ])
    /\ ret' = [ NoRet EXCEPT !.op = op, !.outcome = "entered" ]
    /\ UNCHANGED <<text, pos, tokenStart, line, lineStart, status,
                   eofEver, output, parser>>

\* the frames after the innermost callback returned
Leave ==
    LET n == Len(frames)
    IN  IF n = 1
        THEN <<>>
        ELSE [ SubSeq(frames, 1, n - 1) EXCEPT ![n - 1].nested = TRUE ]

\* what the return of the innermost callback leaves behind
Left(op, truthy) ==
    [ NoRet EXCEPT !.op = op, !.outcome = "return",
                   !.from = frames[Len(frames)].entry,
                   !.mid = Current, !.truthy = truthy,
                   !.nested = frames[Len(frames)].nested,
                   !.depth = Len(frames) - 1 ]

\* scanner.lookAhead(fn), up to the call of fn
LookAheadBegin == Enter("lookAhead")

\* scanner.lookAhead(fn), from the return of fn
LookAheadEnd ==
    /\ status = "ready"
    /\ Len(frames) > 0
    /\ frames[Len(frames)].op = "lookAhead"
    /\ SetState(restoreState(stateStack, Current))
    /\ stateStack' = popState(stateStack)
    /\ frames' = Leave
    /\ ret' = Left("lookAhead", FALSE)
    /\ UNCHANGED <<text, status, eofEver, output, parser>>

\* scanner.tryScan(fn), up to the call of fn
TryScanBegin == Enter("tryScan")

\* scanner.tryScan(fn), from the return of fn with a truthy or falsy value
TryScanEnd ==
    /\ status = "ready"
    /\ Len(frames) > 0
    /\ frames[Len(frames)].op = "tryScan"
    /\ \E truthy \in BOOLEAN :
          /\ SetState(tryScanResult(stateStack, Current, truthy))
          /\ ret' = Left("tryScan", truthy)
    /\ stateStack' = popState(stateStack)
    /\ frames' = Leave
    /\ UNCHANGED <<text, status, eofEver, output, parser>>

Next ==
    \/ NextToken
    \/ LookAheadBegin
    \/ LookAheadEnd
    \/ TryScanBegin
    \/ TryScanEnd

Spec == Init /\ [][Next]_vars

-----------------------------------------------------------------------------
(* main(): the loop that prints every token of a file *)

InitMain ==
    /\ text \in Texts(Alphabet, MaxLen) \cup Samples
    /\ InitScanner

\* one turn of the do-while: element = scanner.nextToken(); console.log(...)
MainStep ==
    /\ status = "ready"
    /\ LET r == nextToken(text, Current)
       IN  /\ NextTokenEffect(r)
           /\ status' = CASE r.type = "elem" ->
                               IF r.elem.kind = "EndOfFileToken"
                               THEN "done" ELSE "ready"
                          [] r.type = "throw" -> "thrown"
                          [] OTHER -> "hung"
           /\ output' = IF r.type = "elem" THEN Append(output, r.elem)
                                           ELSE output
    /\ UNCHANGED <<text, stateStack, parser>>

NextMain == MainStep

SpecMain == InitMain /\ [][NextMain]_vars

-----------------------------------------------------------------------------
(* Properties of lookAhead, tryScan and the end of the text *)

\* C1: lookAhead(fn) with fn returning normally leaves pos, line, lineStart
\* and tokenStart exactly as they were before the call, whatever fn scanned
\* and however it nested lookAhead and tryScan.
C1_LookAheadRestores ==
    (ret.op = "lookAhead" /\ ret.outcome = "return") => Current = ret.from

\* a lookAhead has returned whose callback scanned several characters,
\* crossed a line feed and ran a nested lookAhead or tryScan
C1_Witness ==
    /\ ret.op = "lookAhead"
    /\ ret.outcome = "return"
    /\ ret.nested
    /\ ret.mid.pos > ret.from.pos + 1
    /\ ret.mid.line > ret.from.line
    /\ ret.mid.tokenStart # ret.from.tokenStart
    /\ ret.mid.lineStart # ret.from.lineStart

\* C2: tryScan(fn) keeps the advance fn made when fn returns a truthy value
\* and restores pos, line, lineStart and tokenStart when fn returns a falsy
\* one; the state after the call differs from the state before it only if
\* fn returned truthy.
C2_TryScanCommitsIffTruthy ==
    (ret.op = "tryScan" /\ ret.outcome = "return") =>
        /\ ret.truthy => Current = ret.mid
        /\ ~ret.truthy => Current = ret.from
        /\ Current # ret.from => ret.truthy

\* a tryScan has returned falsy after its callback advanced over a line feed
C2_Witness ==
    /\ ret.op = "tryScan"
    /\ ret.outcome = "return"
    /\ ~ret.truthy
    /\ ret.mid.pos > ret.from.pos
    /\ ret.mid.line > ret.from.line
    /\ Current = ret.from

\* a nextToken step that returns EndOfFileToken and changes no field
ReturnsEofAgain ==
    /\ ret'.outcome = "return"
    /\ ret'.elem.kind = "EndOfFileToken"
    /\ UNCHANGED <<pos, line, lineStart, tokenStart>>

\* C3 as stated: once nextToken has returned EndOfFileToken, every later
\* nextToken call returns EndOfFileToken again and leaves pos, line,
\* lineStart and tokenStart unchanged.
C3_EofForEver ==
    [][(eofEver /\ NextToken) => ReturnsEofAgain]_vars

\* C3 amended: once nextToken has returned EndOfFileToken, every later
\* nextToken call made while the scanner stands at the end of the text (no
\* lookAhead or tryScan has put it back before the end) returns
\* EndOfFileToken again and leaves pos, line, lineStart and tokenStart
\* unchanged.
C3_EofWhileAtEnd ==
    [][(eofEver /\ pos >= End(text) /\ NextToken) => ReturnsEofAgain]_vars

\* a nextToken call made after an earlier one returned EndOfFileToken has
\* returned EndOfFileToken too, on a text that has tokens
C3_Witness ==
    /\ ret.op = "nextToken"
    /\ ret.eofBefore
    /\ ret.outcome = "return"
    /\ ret.elem.kind = "EndOfFileToken"
    /\ ret.from = Current
    /\ Len(text) > 1

-----------------------------------------------------------------------------
(* Properties of the tokens nextToken returns *)

\* the characters nextToken skips between tokens
IsBlank(c) == c = Space \/ c = Tab \/ c = LineFeed

\* the offset of the first character at or after p that is not a blank
\* (the length of the text if there is none)
FirstNonBlank(t, p) ==
    CHOOSE q \in p..Len(t) :
        /\ \A k \in (p + 1)..q : IsBlank(t[k])
        /\ q = Len(t) \/ ~IsBlank(t[q + 1])

\* the line, counted from 1, of the character at offset p
LineOf(t, p) == 1 + Cardinality({ k \in 1..p : t[k] = LineFeed })

\* the offset of the first character of the line of offset p
LineBegin(t, p) ==
    IF \E k \in 1..p : t[k] = LineFeed
    THEN CHOOSE k \in 1..p :
             t[k] = LineFeed /\ \A j \in (k + 1)..p : t[j] # LineFeed
    ELSE 0

\* the end of the longest run of identifier-part characters from offset p
RunEnd(t, p) ==
    CHOOSE q \in p..Len(t) :
        /\ \A k \in (p + 1)..q : isIdentifierPart(t[k])
        /\ q = Len(t) \/ ~isIdentifierPart(t[q + 1])

\* the character the last nextToken call met first, and its offset
MetAt == FirstNonBlank(text, ret.from.pos)
Met == charCodeAt(text, MetAt)

\* the identifier run the last nextToken call met
MetWord == SubSeq(text, MetAt + 1, RunEnd(text, MetAt))

KeywordTexts == { e[1] : e \in textToKeywordObj }
KeywordKind(w) == (CHOOSE e \in textToKeywordObj : e[1] = w)[2]

\* C4: every token nextToken returns has pos at the offset of its first
\* character, line equal to 1 plus the line feeds before that offset, column
\* equal to pos minus the offset of the first character of that line plus 1,
\* and length equal to the characters it spans (pos after the call minus
\* tokenStart); the first character of EndOfFileToken is the end of the text.
C4_TokenPosition ==
    (ret.op = "nextToken" /\ ret.outcome = "return") =>
        /\ ret.elem.pos = MetAt
        /\ ret.elem.line = LineOf(text, ret.elem.pos)
        /\ ret.elem.column = ret.elem.pos - LineBegin(text, ret.elem.pos) + 1
        /\ ret.elem.length = pos - tokenStart

RECURSIVE SumOfLengths(_)
SumOfLengths(toks) ==
    IF toks = <<>> THEN 0
    ELSE Head(toks).length + SumOfLengths(Tail(toks))

\* the tokens main() printed before EndOfFileToken
Printed == SubSeq(output, 1, Len(output) - 1)

\* C5: when a text is scanned to EndOfFileToken without a lexical error, the
\* spans [pos, pos + length) of the tokens before it are in increasing
\* order and disjoint, hold no blank, and their lengths and the blanks of the
\* text add up to the length of the text.
C5_TokensCoverText ==
    status = "done" =>
        /\ \A i \in 1..Len(Printed) : \A j \in 1..Len(Printed) :
              i < j => Printed[i].pos + Printed[i].length <= Printed[j].pos
        /\ \A i \in 1..Len(Printed) :
              \A k \in (Printed[i].pos + 1)..(Printed[i].pos + Printed[i].length) :
                  k <= Len(text) /\ ~IsBlank(text[k])
        /\ SumOfLengths(Printed)
              + Cardinality({ k \in 1..Len(text) : IsBlank(text[k]) })
              = Len(text)

\* C6: at an = nextToken returns EqualsEqualsToken of length 2 if and only
\* if the next character is an = too; otherwise it returns EqualsToken of
\* length 1 and consumes that one character.
C6_EqualsEquals ==
    (ret.op = "nextToken" /\ Met = Equals) =>
        /\ ret.outcome = "return"
        /\ IF charCodeAt(text, MetAt + 1) = Equals
           THEN /\ ret.elem.kind = "EqualsEqualsToken"
                /\ ret.elem.length = 2
                /\ pos = MetAt + 2
           ELSE /\ ret.elem.kind = "EqualsToken"
                /\ ret.elem.length = 1
                /\ pos = MetAt + 1

\* C7: at an identifier-start character nextToken consumes the longest run
\* of identifier-part characters and classifies the whole run: the keyword
\* kind when the run is one of the ten keywords, Identifier otherwise
\* (future-reserved words apart).
C7_IdentifierRun ==
    (ret.op = "nextToken" /\ isIdentifierStart(Met)
        /\ MetWord \notin futureReservedWords) =>
        /\ ret.outcome = "return"
        /\ ret.elem.rawText = MetWord
        /\ ret.elem.pos = MetAt
        /\ ret.elem.length = Len(MetWord)
        /\ pos = RunEnd(text, MetAt)
        /\ ret.elem.kind = IF MetWord \in KeywordTexts
                           THEN KeywordKind(MetWord)
                           ELSE "Identifier"

\* nextToken has returned the identifier if1, which starts like the keyword
\* if and ends in a digit
C7_Witness ==
    /\ ret.op = "nextToken"
    /\ ret.outcome = "return"
    /\ ret.elem.kind = "Identifier"
    /\ ret.elem.rawText = <<105, 102, 49>>
    /\ ret.from.pos < MetAt

\* C8: an identifier run spelled as a future-reserved word makes nextToken,
\* called directly or inside a lookAhead or tryScan callback, raise a lexical
\* error whose element starts at the first character of the word (column 5
\* for `let while = 1;`); the word is never returned as an Identifier.
C8_FutureReservedRejected ==
    /\ (ret.op = "nextToken" /\ isIdentifierStart(Met)
           /\ MetWord \in futureReservedWords) =>
           /\ ret.outcome = "throw"
           /\ status = "thrown"
           /\ ret.msg = "is a reserved keyword"
           /\ ret.word = MetWord
           /\ ret.elem.kind = "Unknown"
           /\ ret.elem.pos = MetAt
           /\ ret.elem.length = Len(MetWord)
           /\ text = LetWhile => (ret.elem.column = 5 /\ ret.elem.line = 1)
    /\ (ret.op = "nextToken" /\ ret.outcome = "return") =>
           ~(ret.elem.kind = "Identifier"
               /\ ret.elem.rawText \in futureReservedWords)

\* nextToken, called inside a callback of a callback, has raised the error
\* for the word of that follows a line feed
C8_Witness ==
    /\ ret.op = "nextToken"
    /\ ret.outcome = "throw"
    /\ ret.depth = 2
    /\ ret.word = <<111, 102>>
    /\ ret.elem.pos > 0
    /\ ret.elem.line > 1

\* C9: when nextToken reaches a carriage return before producing a token it
\* raises "FATAL: Windows encountered" with an Unknown element positioned at
\* that character, and returns no token.
C9_CarriageReturnFatal ==
    (ret.op = "nextToken" /\ Met = CarriageReturn) =>
        /\ ret.outcome = "throw"
        /\ status = "thrown"
        /\ ret.msg = "FATAL: Windows encountered"
        /\ ret.elem.kind = "Unknown"
        /\ ret.elem.pos = MetAt
        /\ text[ret.elem.pos + 1] = CarriageReturn
        /\ pos = MetAt

\* nextToken has raised the error at a carriage return that follows a token
\* and blanks
C9_Witness ==
    /\ ret.op = "nextToken"
    /\ ret.outcome = "throw"
    /\ ret.msg = "FATAL: Windows encountered"
    /\ Len(output) > 0
    /\ ret.from.pos < ret.elem.pos

\* the characters the switch of nextTokenSingle has a case for
HasCase(c) ==
    c \in { CarriageReturn, LineFeed, Space, Tab, OpenBrace, CloseBrace,
            OpenParen, CloseParen, Semicolon, Comma, Colon, Equals, Plus,
            Minus, LessThan, GreaterThan }

\* C10: a character that is no whitespace, none of the punctuation and
\* operator characters, no digit and no identifier start makes nextToken
\* return a token of kind Unknown and advance past the character.
C10_UnknownCharacter ==
    (ret.op = "nextToken" /\ MetAt < Len(text) /\ ~HasCase(Met)
        /\ ~isIdentifierPart(Met)) =>
        /\ ret.outcome = "return"
        /\ ret.elem.kind = "Unknown"
        /\ pos > MetAt

-----------------------------------------------------------------------------
(* Properties of the whitespace nextToken skips and of EndOfFileToken *)

\* the characters the scanner is to skip without a token
IsSkipped(c) == c = Space \/ c = Tab \/ c = VerticalTab \/ c = LineFeed

\* the end of the run of such characters that starts at offset p
SkippedEnd(t, p) ==
    CHOOSE q \in p..Len(t) :
        /\ \A k \in (p + 1)..q : IsSkipped(t[k])
        /\ q = Len(t) \/ ~IsSkipped(t[q + 1])

\* the line feeds at the offsets a..(b - 1)
LineFeedsIn(t, a, b) == { k \in (a + 1)..b : t[k] = LineFeed }

\* the greatest member of a non-empty set of numbers
Greatest(S) == CHOOSE x \in S : \A y \in S : y <= x

\* C11: nextToken skips the spaces, tabs and vertical tabs it starts on and
\* makes no token of them, and every line feed it skips adds one to line and
\* sets lineStart to the offset just after that line feed.
C11_WhitespaceSkipped ==
    ret.op = "nextToken" =>
        LET q   == SkippedEnd(text, ret.from.pos)
            lfs == LineFeedsIn(text, ret.from.pos, q)
        IN  /\ pos >= q
            /\ (ret.outcome = "return" /\ ret.elem.kind # "EndOfFileToken")
                  => ret.elem.pos >= q
            /\ line = ret.from.line + Cardinality(lfs)
            /\ lineStart = IF lfs = {} THEN ret.from.lineStart
                                       ELSE Greatest(lfs)

\* C12: every EndOfFileToken nextToken returns has length 0 and pos equal
\* to the length of the text.
C12_EofElement ==
    (ret.op = "nextToken" /\ ret.outcome = "return"
        /\ ret.elem.kind = "EndOfFileToken") =>
        /\ ret.elem.length = 0
        /\ ret.elem.pos = Len(text)

-----------------------------------------------------------------------------
(* parser/parser: the nodes and the utilities.  A parse state s holds the  *)
(* scanner (scanner, sc, stateStack), the parser's fields, the nodes made  *)
(* so far (a node is known by its index in nodes; 0 is undefined), the     *)
(* error raised, if any, and what the last call returned (node, flag,      *)
(* peeked).  A call on a state in which an error has been raised does      *)
(* nothing: the error propagates to parseFile.                             *)

\* number & number on the flag bits
RECURSIVE BitAnd(_, _)
BitAnd(a, b) ==
    IF a = 0 \/ b = 0 THEN 0
    ELSE (a % 2) * (b % 2) + 2 * BitAnd(a \div 2, b \div 2)

\* number | number on the flag bits
RECURSIVE BitOr(_, _)
BitOr(a, b) ==
    IF a = 0 THEN b
    ELSE IF b = 0 THEN a
    ELSE (IF a % 2 = 1 \/ b % 2 = 1 THEN 1 ELSE 0)
             + 2 * BitOr(a \div 2, b \div 2)

\* a - b in JavaScript numbers: NaN when an operand is undefined or NaN
Minus_(a, b) == IF a < 0 \/ b < 0 THEN NaN ELSE a - b

\* alloc.Node / TokenNode / Identifier / SourceFile: the constructors set
\* line, column, length, kind, flags and parent; pos is left unset
NodeConstructor(kind, line_, column) ==
    [ kind |-> kind, line |-> line_, column |-> column,
      pos |-> UndefinedNumber, length |-> 1, parent |-> 0,
      text |-> <<>>,
      statements |-> <<>>, declaration |-> 0,
      name |-> 0, type |-> 0, initializer |-> 0, params |-> <<>>, body |-> 0,
      condition |-> 0, thenStatement |-> 0, elseStatement |-> 0,
      expression |-> 0,
      left |-> 0, operatorToken |-> 0, right |-> 0,
      callee |-> 0, args |-> <<>> ]

Failed(s) == s.err.type # "none"

\* throw new UnholyParserError / UnholySyntaxError
Raise(s, type, msg, what, elem) ==
    [ s EXCEPT !.err = [ type |-> type, msg |-> msg, what |-> what,
                         elem |-> elem ] ]

\* a nextToken call that does not return: an error (r.type = "throw") or a
\* loop without end (r.type = "diverge")
Unreturned(s, r) ==
    IF r.type = "throw"
    THEN Raise(s, "UnholySyntaxError", r.msg, "", r.elem)
    ELSE Raise(s, "never returns", "", "", NoElem)

\* new alloc.Node(kind, line, column): the node is s.node afterwards
alloc(s, kind, line_, column) ==
    IF Failed(s) THEN s
    ELSE [ s EXCEPT !.nodes = Append(s.nodes, NodeConstructor(kind, line_, column)),
                    !.node = Len(s.nodes) + 1 ]

\* lexer/token-maps: the kinds tokenToString has a string for
HasTokenString(kind) ==
    kind \in { e[2] : e \in textToKeywordObj } \cup
        { "OpenBraceToken", "CloseBraceToken", "OpenParenToken",
          "CloseParenToken", "SemicolonToken", "CommaToken", "LessThanToken",
          "GreaterThanToken", "EqualsEqualsToken", "PlusToken", "MinusToken",
          "ColonToken", "EqualsToken" }

InSeq(x, seq) == \E i \in 1..Len(seq) : seq[i] = x

\* the error consume and assertKind raise for an element not expected
NotExpected(s, expected, elem) ==
    IF HasTokenString(expected[1])
    THEN Raise(s, "UnholyParserError", "expected", expected[1], elem)
    ELSE Raise(s, "UnholyParserError", "Unexpected token", "", elem)

\* const v = ...; F(v)
With(v, F(_)) == F(v)

\* consume(...expected): the next token becomes the current one
consume(s, expected) ==
    IF Failed(s) THEN s
    ELSE With(s.scanner[s.sc], LAMBDA r :
             IF r.type # "elem"
             THEN Unreturned([ s EXCEPT !.sc = r.st ], r)
             ELSE IF Len(expected) # 0 /\ ~InSeq(r.elem.kind, expected)
             THEN NotExpected([ s EXCEPT !.sc = r.st ], expected, r.elem)
             ELSE [ s EXCEPT !.sc = r.st, !.token = r.elem ])

\* scanner.tryScan(() => nextToken, kept if keep(token)), as consumeOptional
\* and speculate use it: s.flag tells whether the token was kept
tryScanToken(s, keep(_)) ==
    IF Failed(s) THEN s
    ELSE With(s.scanner[s.sc], LAMBDA r :
             IF r.type # "elem"
             THEN Unreturned(
                      [ s EXCEPT !.sc = r.st,
                                 !.stateStack = storeState(s.stateStack, s.sc) ],
                      r)
             ELSE [ s EXCEPT
                      !.sc = tryScanResult(storeState(s.stateStack, s.sc),
                                           r.st, keep(r.elem)),
                      !.stateStack = popState(storeState(s.stateStack, s.sc)),
                      !.token = IF keep(r.elem) THEN r.elem ELSE s.token,
                      !.flag = keep(r.elem) ])

\* consumeOptional keeping the token whatever its kind
consumeOptionalAnyKind(s, tokenKinds) ==
    LET keep(nextToken_) == TRUE
    IN  tryScanToken(s, keep)

\* consumeOptional(...tokenKinds)
consumeOptional(s, tokenKinds) ==
    LET keep(nextToken_) == nextToken_.kind \in tokenKinds
    IN  tryScanToken(s, keep)

\* speculate(fn)
speculate(s, fn(_)) == tryScanToken(s, fn)

\* peek(): the next token is s.peeked afterwards
peek(s) ==
    IF Failed(s) THEN s
    ELSE With(s.scanner[s.sc], LAMBDA r :
             IF r.type # "elem"
             THEN Unreturned(
                      [ s EXCEPT !.sc = r.st,
                                 !.stateStack = storeState(s.stateStack, s.sc) ],
                      r)
             ELSE [ s EXCEPT
                      !.sc = restoreState(storeState(s.stateStack, s.sc), r.st),
                      !.stateStack = popState(storeState(s.stateStack, s.sc)),
                      !.peeked = r.elem ])

\* assertKind(...expected)
assertKind(s, expected) ==
    IF Failed(s) THEN s
    ELSE IF ~InSeq(s.token.kind, expected)
    THEN NotExpected(s, expected, s.token)
    ELSE s

\* node.pos = this.scanner.getPos()
setPos(s) ==
    IF Failed(s) THEN s
    ELSE [ s EXCEPT !.nodes[s.node].pos = s.sc.pos ]

\* makeNode(kind): line and column of the current token
makeNode(s, kind) ==
    IF Failed(s) THEN s
    ELSE setPos(alloc(s, kind, s.token.line, s.token.column))

\* makeNode(elem), makeToken(elem), makeIdentifier(elem): kind, line and
\* column of the element
makeNodeOf(s, elem) ==
    IF Failed(s) THEN s
    ELSE setPos(alloc(s, elem.kind, elem.line, elem.column))

\* finalizeNode(node): s.node is node afterwards
finalizeNode(s, node) ==
    IF Failed(s) THEN s
    ELSE [ s EXCEPT !.nodes[node].length = Minus_(s.sc.pos, s.nodes[node].pos),
                    !.nodes[node].parent =
                        IF s.nodes[node].parent = 0 THEN s.parent
                        ELSE s.nodes[node].parent,
                    !.node = node ]

\* makeBinaryExpression that leaves the parent of the operands as it is
makeBinaryExpressionKeepsParents(s, left, operatorToken, right) ==
    IF Failed(s) THEN s
    ELSE With(alloc(s, "BinaryExpression", s.nodes[left].line,
                    s.nodes[left].column),
              LAMBDA s1 :
                 finalizeNode(
                     [ s1 EXCEPT !.nodes[s1.node].pos = s.nodes[left].pos,
                                 !.nodes[operatorToken].parent = s1.node,
                                 !.nodes[s1.node].left = left,
                                 !.nodes[s1.node].operatorToken = operatorToken,
                                 !.nodes[s1.node].right = right ],
                     s1.node))

\* makeBinaryExpression(left, operatorToken, right)
makeBinaryExpression(s, left, operatorToken, right) ==
    IF Failed(s) THEN s
    ELSE With(alloc(s, "BinaryExpression", s.nodes[left].line,
                    s.nodes[left].column),
              LAMBDA s1 :
                 finalizeNode(
                     [ s1 EXCEPT !.nodes[s1.node].pos = s.nodes[left].pos,
                                 !.nodes[left].parent = s1.node,
                                 !.nodes[operatorToken].parent = s1.node,
                                 !.nodes[right].parent = s1.node,
                                 !.nodes[s1.node].left = left,
                                 !.nodes[s1.node].operatorToken = operatorToken,
                                 !.nodes[s1.node].right = right ],
                     s1.node))

\* assertContext without its strict comparison: any shared flag is enough
assertContextAnyFlag(s, required, loose) ==
    IF Failed(s) THEN s
    ELSE IF BitAnd(s.context, required) = 0
    THEN Raise(s, "UnholyParserError", "not allowed in this context",
               "", s.token)
    ELSE s

\* assertContext comparing strictly whatever loose is
assertContextAlwaysStrict(s, required, loose) ==
    IF Failed(s) THEN s
    ELSE IF BitAnd(s.context, required) # s.context
    THEN Raise(s, "UnholyParserError", "not allowed in this context",
               "", s.token)
    ELSE s

\* assertContext(required, loose)
assertContext(s, required, loose) ==
    IF Failed(s) THEN s
    ELSE LET masked == BitAnd(s.context, required)
         IN  IF (loose /\ masked = 0) \/ (~loose /\ masked # s.context)
             THEN Raise(s, "UnholyParserError", "not allowed in this context",
                        "", s.token)
             ELSE s

\* pushContext adding the flags to the current ones
pushContextAddsFlags(s, context) ==
    IF Failed(s) THEN s
    ELSE [ s EXCEPT !.contextStack = Append(s.contextStack, s.context),
                    !.context = BitOr(s.context, context) ]

pushContext(s, context) ==
    IF Failed(s) THEN s
    ELSE [ s EXCEPT !.contextStack = Append(s.contextStack, s.context),
                    !.context = context ]

\* popContext shortening the stack without taking the context from it
popContextKeepsContext(s) ==
    IF Failed(s) THEN s
    ELSE IF Len(s.contextStack) = 0 THEN s
    ELSE [ s EXCEPT !.contextStack = SubSeq(s.contextStack, 1,
                                            Len(s.contextStack) - 1) ]

popContext(s) ==
    IF Failed(s) THEN s
    ELSE IF Len(s.contextStack) = 0 THEN s
    ELSE [ s EXCEPT !.context = s.contextStack[Len(s.contextStack)],
                    !.contextStack = SubSeq(s.contextStack, 1,
                                            Len(s.contextStack) - 1) ]

pushParent(s, parent_) ==
    IF Failed(s) THEN s
    ELSE [ s EXCEPT !.parentStack = Append(s.parentStack, s.parent),
                    !.parent = parent_ ]

popParent(s) ==
    IF Failed(s) THEN s
    ELSE IF Len(s.parentStack) = 0 THEN s
    ELSE [ s EXCEPT !.parent = IF s.parentStack[Len(s.parentStack)] # 0
                               THEN s.parentStack[Len(s.parentStack)]
                               ELSE s.parent,
                    !.parentStack = SubSeq(s.parentStack, 1,
                                           Len(s.parentStack) - 1) ]

\* utils/parser-utils
isStartOfLeftHandSideExpression(token) ==
    token \in { "FalseKeyword", "IntegerLiteral", "TrueKeyword",
                "OpenParenToken", "Identifier" }

\* isStartOfExpression without the unary plus and minus
isStartOfExpressionNoUnary(token) ==
    isStartOfLeftHandSideExpression(token)

isStartOfExpression(token) ==
    isStartOfLeftHandSideExpression(token)
        \/ token \in { "PlusToken", "MinusToken" }

isAssignmentOperator(token) == token = "EqualsToken"

getBinaryOperatorPrecedence(operator) ==
    CASE operator \in { "AsteriskToken", "SlashToken", "PercentToken" } -> 14
      [] operator \in { "PlusToken", "MinusToken" } -> 13
      [] operator \in { "GreaterThanToken", "LessThanToken" } -> 10
      [] operator = "EqualsEqualsToken" -> 9
      [] operator = "EqualsToken" -> 2
      [] OTHER -> -1

-----------------------------------------------------------------------------
(* parser/parser: the parse methods *)

\* the state t, unless an error has been raised in s
Then(s, t) == IF Failed(s) THEN s ELSE t

\* the kinds of the nodes the parent stack and the parent pointer hold
Ancestors(s) ==
    [ i \in 1..(Len(s.parentStack) + 1) |->
        LET n == IF i <= Len(s.parentStack) THEN s.parentStack[i] ELSE s.parent
        IN  IF n = 0 THEN "undefined" ELSE s.nodes[n].kind ]

\* history: a parse method is entered
Enter_(s, method) ==
    [ s EXCEPT !.events = Append(s.events,
          [ method |-> method, context |-> s.context,
            ancestors |-> Ancestors(s), token |-> s.token ]) ]

\* history: a parse method that was entered in state s returns in state r
Leave_(s, r) ==
    IF Failed(r) THEN r
    ELSE [ r EXCEPT !.restored =
             /\ r.restored
             /\ r.context = s.context
             /\ r.parent = s.parent
             /\ r.contextStack = s.contextStack
             /\ r.parentStack = s.parentStack ]

RECURSIVE parseStatement(_)
RECURSIVE parseBlockStatement(_)
RECURSIVE blockStatements(_, _)
RECURSIVE parseVarDeclarationStatement(_)
RECURSIVE parseFuncDeclarationStatement(_)
RECURSIVE parseIfStatement(_)
RECURSIVE parseReturnStatement(_)
RECURSIVE parseExpressionStatement(_)
RECURSIVE parseVarDeclaration(_)
RECURSIVE parseFuncDeclaration(_)
RECURSIVE parseParameterDeclaration(_)
RECURSIVE delimitedListLoop(_, _, _, _)
RECURSIVE parseDelimitedList(_, _, _)
RECURSIVE parseExpression(_, _)
RECURSIVE parseAssignmentExpressionOrHigher(_)
RECURSIVE parseBinaryExpressionOrHigher(_, _)
RECURSIVE parseBinaryExpressionRest(_, _, _)
RECURSIVE parsePrimaryExpression(_, _)
RECURSIVE parseCallExpression(_, _)

parseStatement(s) ==
    IF Failed(s) THEN s
    ELSE CASE s.token.kind = "OpenBraceToken" -> parseBlockStatement(s)
           [] s.token.kind = "LetKeyword" -> parseVarDeclarationStatement(s)
           [] s.token.kind = "FuncKeyword" -> parseFuncDeclarationStatement(s)
           [] s.token.kind = "IfKeyword" -> parseIfStatement(s)
           [] s.token.kind = "ReturnKeyword" -> parseReturnStatement(s)
           [] OTHER ->
                IF isStartOfExpression(s.token.kind)
                THEN parseExpressionStatement(s)
                ELSE IF s.token.kind = "EndOfFileToken"
                THEN Raise(s, "UnholyParserError", "Unexpected end of file",
                           "", s.token)
                ELSE Raise(s, "UnholyParserError", "Not a statement", "",
                           s.token)

\* the while loop of parseBlockStatement.  No node ever has an error flag,
\* so the test of statement.flags never sets one on the block.
blockStatements(s, block) ==
    IF Failed(s) THEN s
    ELSE With(consume(s, <<>>), LAMBDA c :
         IF Failed(c) THEN c
         ELSE IF c.token.kind = "CloseBraceToken" THEN c
         ELSE With(parseStatement(c), LAMBDA st :
              IF Failed(st) THEN st
              ELSE blockStatements(
                       [ st EXCEPT !.nodes[block].statements =
                                       Append(@, st.node) ],
                       block)))

parseBlockStatement(s) ==
    IF Failed(s) THEN s
    ELSE With(alloc(Enter_(s, "parseBlockStatement"), "BlockStatement",
                    s.token.line, s.token.column),
              LAMBDA s1 :
         With(blockStatements(
                  pushParent(
                      pushContext(s1, BitOr(s1.context, BlockStatements)),
                      s1.node),
                  s1.node),
              LAMBDA s4 :
         IF Failed(s4) THEN s4
         ELSE Leave_(s, finalizeNode(popContext(popParent(s4)), s1.node))))

parseVarDeclarationStatement(s) ==
    IF Failed(s) THEN s
    ELSE With(assertContext(Enter_(s, "parseVarDeclarationStatement"),
                            BitOr(SourceElements, BlockStatements), TRUE),
              LAMBDA a :
         With(alloc(a, "VarDeclarationStatement", a.token.line,
                    a.token.column),
              LAMBDA s1 :
         With(parseVarDeclaration(
                  pushParent(
                      pushContext(s1, BitOr(s1.context, VarDeclarations)),
                      s1.node)),
              LAMBDA s4 :
         IF Failed(s4) THEN s4
         ELSE Leave_(s, finalizeNode(
                  popContext(popParent(
                      consume([ s4 EXCEPT
                                  !.nodes[s1.node].declaration = s4.node ],
                              <<"SemicolonToken">>))),
                  s1.node)))))

parseFuncDeclarationStatement(s) ==
    IF Failed(s) THEN s
    ELSE With(assertContext(Enter_(s, "parseFuncDeclarationStatement"),
                            SourceElements, FALSE),
              LAMBDA a :
         With(alloc(a, "FuncDeclarationStatement", a.token.line,
                    a.token.column),
              LAMBDA s1 :
         With(parseFuncDeclaration(
                  pushParent(pushContext(s1, FuncDeclarations), s1.node)),
              LAMBDA s4 :
         IF Failed(s4) THEN s4
         ELSE Leave_(s, finalizeNode(
                  popContext(popParent(
                      [ s4 EXCEPT !.nodes[s1.node].declaration = s4.node ])),
                  s1.node)))))

\* parseIfStatement returns the node as it is: finalizeNode is not called
parseIfStatement(s) ==
    IF Failed(s) THEN s
    ELSE With(makeNode(
                  assertKind(
                      assertContext(Enter_(s, "parseIfStatement"),
                                    BlockStatements, TRUE),
                      <<"IfKeyword">>),
                  "IfStatement"),
              LAMBDA s1 :
         With(parseExpression(
                  consume(consume(pushParent(s1, s1.node),
                                  <<"OpenParenToken">>),
                          <<>>),
                  FALSE),
              LAMBDA s4 :
         IF Failed(s4) THEN s4
         ELSE
         With(parseStatement(
                  consumeOptional(
                      consume([ s4 EXCEPT !.nodes[s1.node].condition = s4.node ],
                              <<"CloseParenToken">>),
                      { "OpenBraceToken" })),
              LAMBDA s7 :
         IF Failed(s7) THEN s7
         ELSE
         With(consumeOptional(
                  [ s7 EXCEPT !.nodes[s1.node].thenStatement = s7.node ],
                  { "ElseKeyword" }),
              LAMBDA s9 :
         IF Failed(s9) THEN s9
         ELSE IF ~s9.flag
         THEN Leave_(s, [ popParent(s9) EXCEPT !.node = s1.node ])
         ELSE
         With(parseStatement(consumeOptional(s9, { "OpenBraceToken" })),
              LAMBDA s10 :
         IF Failed(s10) THEN s10
         ELSE Leave_(s, [ popParent(s10) EXCEPT
                            !.nodes[s1.node].elseStatement = s10.node,
                            !.node = s1.node ]))))))

parseReturnStatement(s) ==
    IF Failed(s) THEN s
    ELSE With(assertContext(Enter_(s, "parseReturnStatement"),
                            BitOr(FuncDeclarations, BlockStatements), FALSE),
              LAMBDA a :
         With(makeNode(
                  IF Failed(a) \/ a.token.kind = "ReturnKeyword" THEN a
                  ELSE Raise(a, "UnholyParserError", "Unexpected token", "",
                             a.token),
                  "ReturnStatement"),
              LAMBDA s1 :
         With(consume(s1, <<>>), LAMBDA s2 :
         IF Failed(s2) THEN s2
         ELSE IF s2.token.kind = "SemicolonToken"
         THEN Leave_(s, finalizeNode(s2, s1.node))
         ELSE
         With(parseExpression(pushParent(s2, s1.node), FALSE), LAMBDA s3 :
         IF Failed(s3) THEN s3
         ELSE Leave_(s, finalizeNode(
                  consume(popParent(
                              [ s3 EXCEPT
                                  !.nodes[s1.node].expression = s3.node ]),
                          <<"SemicolonToken">>),
                  s1.node))))))

parseExpressionStatement(s) ==
    IF Failed(s) THEN s
    ELSE With(makeNode(
                  assertContext(Enter_(s, "parseExpressionStatement"),
                                BlockStatements, TRUE),
                  "ExpressionStatement"),
              LAMBDA s1 :
         With(parseExpression(pushParent(s1, s1.node), FALSE), LAMBDA s2 :
         IF Failed(s2) THEN s2
         ELSE Leave_(s, finalizeNode(
                  consume(popParent(
                              [ s2 EXCEPT
                                  !.nodes[s1.node].expression = s2.node ]),
                          <<"SemicolonToken">>),
                  s1.node))))

parseIdentifier(s, consume_) ==
    IF Failed(s) THEN s
    ELSE With(IF consume_
              THEN consume(Enter_(s, "parseIdentifier"), <<"Identifier">>)
              ELSE assertKind(Enter_(s, "parseIdentifier"), <<"Identifier">>),
              LAMBDA t :
         With(makeNodeOf(t, t.token), LAMBDA s1 :
         IF Failed(s1) THEN s1
         \* node.name = this.token.rawText: the record keeps it as text
         ELSE Leave_(s, finalizeNode(
                  [ s1 EXCEPT !.nodes[s1.node].text = s1.token.rawText ],
                  s1.node))))

parseType(s, consume_) ==
    IF Failed(s) THEN s
    ELSE With(IF consume_
              THEN consume(Enter_(s, "parseType"),
                           <<"BoolKeyword", "IntKeyword", "VoidKeyword">>)
              ELSE assertKind(Enter_(s, "parseType"),
                              <<"BoolKeyword", "IntKeyword", "VoidKeyword">>),
              LAMBDA t :
         With(makeNodeOf(t, t.token), LAMBDA s1 :
         Leave_(s, finalizeNode(s1, s1.node))))

parseBoolLiteral(s) ==
    IF Failed(s) THEN s
    ELSE With(assertKind(Enter_(s, "parseBoolLiteral"),
                         <<"TrueKeyword", "FalseKeyword">>),
              LAMBDA t :
         With(makeNodeOf(t, t.token), LAMBDA s1 :
         Leave_(s, finalizeNode(s1, s1.node))))

parseIntegerLiteral(s) ==
    IF Failed(s) THEN s
    ELSE With(assertKind(Enter_(s, "parseIntegerLiteral"),
                         <<"IntegerLiteral">>),
              LAMBDA t :
         With(makeNodeOf(t, t.token), LAMBDA s1 :
         IF Failed(s1) THEN s1
         \* node.text = this.token.value, which the scanner sets to rawText
         ELSE Leave_(s, finalizeNode(
                  [ s1 EXCEPT !.nodes[s1.node].text = s1.token.rawText ],
                  s1.node))))

parseVarDeclaration(s) ==
    IF Failed(s) THEN s
    ELSE With(assertContext(Enter_(s, "parseVarDeclaration"),
                            VarDeclarations, TRUE),
              LAMBDA a :
         With(alloc(a, "VarDeclaration", a.token.line, a.token.column),
              LAMBDA s1 :
         With(parseIdentifier(pushParent(s1, s1.node), TRUE), LAMBDA s2 :
         IF Failed(s2) THEN s2
         ELSE
         With(consumeOptional([ s2 EXCEPT !.nodes[s1.node].name = s2.node ],
                              { "ColonToken" }),
              LAMBDA s4 :
         IF Failed(s4) THEN s4
         ELSE
         With(IF s4.flag THEN parseType(s4, TRUE) ELSE s4, LAMBDA s5 :
         IF Failed(s5) THEN s5
         ELSE
         With(consumeOptional(
                  IF s4.flag
                  THEN [ s5 EXCEPT !.nodes[s1.node].type = s5.node ]
                  ELSE s5,
                  { "EqualsToken" }),
              LAMBDA s7 :
         IF Failed(s7) THEN s7
         ELSE IF ~s7.flag
         THEN Leave_(s, finalizeNode(popParent(s7), s1.node))
         ELSE
         With(parseExpression(consume(s7, <<>>), FALSE), LAMBDA s8 :
         IF Failed(s8) THEN s8
         ELSE Leave_(s, finalizeNode(
                  popParent([ s8 EXCEPT
                                !.nodes[s1.node].initializer = s8.node ]),
                  s1.node)))))))))

parseFuncDeclaration(s) ==
    IF Failed(s) THEN s
    ELSE With(assertContext(Enter_(s, "parseFuncDeclaration"),
                            FuncDeclarations, TRUE),
              LAMBDA a :
         With(alloc(a, "FuncDeclaration", a.token.line, a.token.column),
              LAMBDA s1 :
         With(parseIdentifier(pushParent(s1, s1.node), TRUE), LAMBDA s2 :
         IF Failed(s2) THEN s2
         ELSE
         With(consumeOptional(
                  consume([ s2 EXCEPT !.nodes[s1.node].name = s2.node ],
                          <<"OpenParenToken">>),
                  { "CloseParenToken" }),
              LAMBDA s4 :
         IF Failed(s4) THEN s4
         ELSE
         With(IF s4.flag THEN [ s4 EXCEPT !.list = <<>> ]
              ELSE popContext(
                       parseDelimitedList(
                           pushContext(s4, BitOr(s4.context,
                                                 ParameterDeclarations)),
                           "parseParameterDeclaration", "CloseParenToken")),
              LAMBDA s5 :
         IF Failed(s5) THEN s5
         ELSE
         With(parseType(
                  consume([ s5 EXCEPT !.nodes[s1.node].params = s5.list ],
                          <<"ColonToken">>),
                  TRUE),
              LAMBDA s8 :
         IF Failed(s8) THEN s8
         ELSE
         With(parseBlockStatement(
                  consume([ s8 EXCEPT !.nodes[s1.node].type = s8.node ],
                          <<"OpenBraceToken">>)),
              LAMBDA s10 :
         IF Failed(s10) THEN s10
         ELSE Leave_(s, finalizeNode(
                  popParent([ s10 EXCEPT !.nodes[s1.node].body = s10.node ]),
                  s1.node)))))))))

parseParameterDeclaration(s) ==
    IF Failed(s) THEN s
    ELSE With(assertContext(Enter_(s, "parseParameterDeclaration"),
                            ParameterDeclarations, TRUE),
              LAMBDA a :
         With(alloc(a, "ParameterDeclaration", a.token.line, a.token.column),
              LAMBDA s1 :
         With(parseIdentifier(pushParent(s1, s1.node), TRUE), LAMBDA s2 :
         IF Failed(s2) THEN s2
         ELSE
         With(parseType(
                  consume([ s2 EXCEPT !.nodes[s1.node].name = s2.node ],
                          <<"ColonToken">>),
                  TRUE),
              LAMBDA s4 :
         IF Failed(s4) THEN s4
         ELSE Leave_(s, finalizeNode(
                  popParent([ s4 EXCEPT !.nodes[s1.node].type = s4.node ]),
                  s1.node))))))

\* the while loop of parseDelimitedList, with the list pushed so far; parse
\* is parseParameterDeclaration or () => parseExpression(true)
delimitedListLoop(s, list, parse, terminator) ==
    IF Failed(s) THEN s
    ELSE With(IF parse = "parseParameterDeclaration"
              THEN parseParameterDeclaration(s)
              ELSE parseExpression(s, TRUE),
              LAMBDA s1 :
         IF Failed(s1) THEN s1
         ELSE
         With(consumeOptional(s1, { "CommaToken" }), LAMBDA s2 :
         IF Failed(s2) THEN s2
         ELSE IF s2.flag
         THEN delimitedListLoop(s2, Append(list, s1.node), parse, terminator)
         ELSE With(consume(s2, <<terminator>>), LAMBDA s3 :
              IF Failed(s3) THEN s3
              ELSE [ s3 EXCEPT !.list = Append(list, s1.node) ])))

\* parseDelimitedList keeping only the node parsed last
parseDelimitedListLastOnly(s, parse, terminator) ==
    With(delimitedListLoop(s, <<>>, parse, terminator), LAMBDA r :
        IF Failed(r) THEN r
        ELSE [ r EXCEPT !.list = <<r.list[Len(r.list)]>> ])

\* parseDelimitedList(parse, terminator): the list is s.list afterwards
parseDelimitedList(s, parse, terminator) ==
    delimitedListLoop(s, <<>>, parse, terminator)

parseExpression(s, consume_) ==
    IF Failed(s) THEN s
    ELSE With(IF consume_ THEN consume(Enter_(s, "parseExpression"), <<>>)
              ELSE Enter_(s, "parseExpression"),
              LAMBDA c :
         IF Failed(c) THEN c
         ELSE IF ~isStartOfExpression(c.token.kind)
         THEN Raise(c, "UnholyParserError", "Expected an expression", "",
                    c.token)
         ELSE Leave_(s, parseAssignmentExpressionOrHigher(c)))

parseAssignmentExpressionOrHigher(s) ==
    IF Failed(s) THEN s
    ELSE With(parseBinaryExpressionOrHigher(
                  Enter_(s, "parseAssignmentExpressionOrHigher"), 0),
              LAMBDA s1 :
         IF Failed(s1) THEN s1
         ELSE IF ~isAssignmentOperator(s1.token.kind) THEN Leave_(s, s1)
         ELSE
         With(makeNodeOf(consume(s1, <<>>), s1.token), LAMBDA s2 :
         With(parseAssignmentExpressionOrHigher(s2), LAMBDA s3 :
         IF Failed(s3) THEN s3
         ELSE Leave_(s, makeBinaryExpression(s3, s1.node, s2.node,
                                             s3.node)))))

parseBinaryExpressionOrHigher(s, precedence) ==
    IF Failed(s) THEN s
    ELSE With(parsePrimaryExpression(
                  Enter_(s, "parseBinaryExpressionOrHigher"), FALSE),
              LAMBDA s1 :
         IF Failed(s1) THEN s1
         ELSE
         With(speculate(s1, LAMBDA token_ :
                  getBinaryOperatorPrecedence(token_.kind) # -1),
              LAMBDA s2 :
         IF Failed(s2) THEN s2
         ELSE IF ~s2.flag
         THEN Leave_(s, [ s2 EXCEPT !.node = s1.node ])
         ELSE Leave_(s, parseBinaryExpressionRest(s2, precedence, s1.node))))

\* parseBinaryExpressionRest going on for an operator of the same precedence
parseBinaryExpressionRestSamePrecedence(s, precedence, leftOperand) ==
    IF Failed(s) THEN s
    ELSE IF ~(getBinaryOperatorPrecedence(s.token.kind) >= precedence)
    THEN [ s EXCEPT !.node = leftOperand ]
    ELSE With(makeNodeOf(s, s.token), LAMBDA s1 :
         With(parseBinaryExpressionOrHigher(
                  consume(s1, <<>>),
                  getBinaryOperatorPrecedence(s.token.kind)),
              LAMBDA s2 :
         IF Failed(s2) THEN s2
         ELSE
         With(makeBinaryExpression(s2, leftOperand, s1.node, s2.node),
              LAMBDA s3 :
         parseBinaryExpressionRest(s3, precedence, s3.node))))

\* the while loop of parseBinaryExpressionRest, one turn a call
parseBinaryExpressionRest(s, precedence, leftOperand) ==
    IF Failed(s) THEN s
    ELSE IF ~(getBinaryOperatorPrecedence(s.token.kind) > precedence)
    THEN [ s EXCEPT !.node = leftOperand ]
    ELSE With(makeNodeOf(s, s.token), LAMBDA s1 :
         With(parseBinaryExpressionOrHigher(
                  consume(s1, <<>>),
                  getBinaryOperatorPrecedence(s.token.kind)),
              LAMBDA s2 :
         IF Failed(s2) THEN s2
         ELSE
         With(makeBinaryExpression(s2, leftOperand, s1.node, s2.node),
              LAMBDA s3 :
         parseBinaryExpressionRest(s3, precedence, s3.node))))

parsePrimaryExpression(s, consume_) ==
    IF Failed(s) THEN s
    ELSE CASE s.token.kind = "Identifier" ->
                With(parseIdentifier(Enter_(s, "parsePrimaryExpression"),
                                     consume_),
                     LAMBDA s1 :
                With(peek(s1), LAMBDA s2 :
                IF Failed(s2) THEN s2
                ELSE IF s2.peeked.kind = "OpenParenToken"
                THEN Leave_(s, parseCallExpression(s2, s1.node))
                ELSE Leave_(s, [ s2 EXCEPT !.node = s1.node ])))
           [] s.token.kind = "IntegerLiteral" ->
                Leave_(s, parseIntegerLiteral(
                              Enter_(s, "parsePrimaryExpression")))
           [] s.token.kind \in { "TrueKeyword", "FalseKeyword" } ->
                Leave_(s, parseBoolLiteral(
                              Enter_(s, "parsePrimaryExpression")))
           [] OTHER ->
                Raise(s, "UnholyParserError", "Unexpected token", "", s.token)

parseCallExpression(s, callee) ==
    IF Failed(s) THEN s
    ELSE With(makeNode(consume(Enter_(s, "parseCallExpression"),
                               <<"OpenParenToken">>),
                       "CallExpression"),
              LAMBDA s1 :
         IF Failed(s1) THEN s1
         ELSE
         With(peek([ s1 EXCEPT !.nodes[s1.node].callee = callee,
                               !.nodes[callee].parent = s1.node ]),
              LAMBDA s3 :
         IF Failed(s3) THEN s3
         ELSE IF s3.peeked.kind = "CloseParenToken"
         THEN Leave_(s, finalizeNode(s3, s1.node))
         ELSE
         With(parseDelimitedList(
                  pushParent(
                      pushContext(s3, BitOr(s3.context, ArgExpressions)),
                      s1.node),
                  "parseExpression", "CloseParenToken"),
              LAMBDA s5 :
         IF Failed(s5) THEN s5
         ELSE Leave_(s, finalizeNode(
                  popContext(popParent(
                      [ s5 EXCEPT !.nodes[s1.node].args = s5.list ])),
                  s1.node)))))

-----------------------------------------------------------------------------
(* parseFile: the programs parsed and the steps of the call *)

\* the text of a keyword
KeywordText(kind) == (CHOOSE e \in textToKeywordObj : e[2] = kind)[1]

\* words joined by sep
RECURSIVE Join(_, _)
Join(words, sep) ==
    IF Len(words) = 0 THEN <<>>
    ELSE IF Len(words) = 1 THEN words[1]
    ELSE words[1] \o <<sep>> \o Join(Tail(words), sep)

Word_a == <<Char_a>>
Word_b == <<98>>
Word_c == <<99>>
Word_f == <<Char_f>>
Word_1 == <<Char_1>>

\* the operators written between the operands of an expression
OperatorWords ==
    { <<Equals>>, <<Plus>>, <<Minus>>, <<LessThan>>, <<GreaterThan>>,
      <<Equals, Equals>>, <<42>> }

OperandAt(i) ==
    CASE i % 3 = 1 -> Word_a
      [] i % 3 = 2 -> Word_b
      [] OTHER -> Word_c

\* a op b op c ...: the expressions of n operands, as sequences of words
RECURSIVE Chains(_)
Chains(n) ==
    IF n = 1 THEN { <<OperandAt(1)>> }
    ELSE { ch \o <<op, OperandAt(n)>> : ch \in Chains(n - 1),
                                        op \in OperatorWords }

\* { S }
InBlock(S) == <<<<OpenBrace>>>> \o S \o <<<<CloseBrace>>>>

\* if ( a ) { S }
InIf(S) ==
    <<KeywordText("IfKeyword"), <<OpenParen>>, Word_a, <<CloseParen>>>>
        \o InBlock(S)

\* if ( a ) { } else { S }
InElse(S) ==
    InIf(<<>>) \o <<KeywordText("ElseKeyword")>> \o InBlock(S)

\* func f ( b : int ) : void { S }
InFunc(S) ==
    <<KeywordText("FuncKeyword"), Word_f, <<OpenParen>>, Word_b, <<Colon>>,
      KeywordText("IntKeyword"), <<CloseParen>>, <<Colon>>,
      KeywordText("VoidKeyword")>> \o InBlock(S)

\* the statements that hold no other statement
Leaves ==
    { <<KeywordText("ReturnKeyword"), <<Semicolon>>>>,
      <<KeywordText("ReturnKeyword"), Word_1, <<Semicolon>>>>,
      <<Word_a, <<Semicolon>>>>,
      <<Word_f, <<OpenParen>>, Word_a, <<Comma>>, Word_1, <<CloseParen>>,
        <<Semicolon>>>>,
      <<KeywordText("LetKeyword"), Word_a, <<Equals>>, Word_1, <<Semicolon>>>>,
      <<KeywordText("LetKeyword"), Word_a, <<Colon>>,
        KeywordText("BoolKeyword"), <<Semicolon>>>>,
      <<KeywordText("FuncKeyword"), Word_f, <<OpenParen>>, <<CloseParen>>,
        <<Colon>>, KeywordText("IntKeyword"), <<OpenBrace>>, <<CloseBrace>>>>,
      <<Word_f, <<OpenParen>>, <<CloseParen>>, <<Semicolon>>>>,
      <<<<CarriageReturn>>>> }

\* the statements nested at most d deep
RECURSIVE Statements(_)
Statements(d) ==
    IF d = 0 THEN Leaves
    ELSE LET inner == Statements(d - 1)
         IN  inner \cup { InBlock(S) : S \in inner }
                   \cup { InIf(S) : S \in inner }
                   \cup { InElse(S) : S \in inner }
                   \cup { InFunc(S) : S \in inner }

\* { E ; } for the expressions of at most MaxOperands operands
ExpressionPrograms ==
    { Join(InBlock(E \o <<<<Semicolon>>>>), Space) :
        E \in UNION { Chains(n) : n \in 1..MaxOperands } }

\* let a : int = 1 + 1 * 1 ;
LetSample ==
    Join(<<KeywordText("LetKeyword"), Word_a, <<Colon>>,
           KeywordText("IntKeyword"), <<Equals>>, Word_1, <<Plus>>, Word_1,
           <<42>>, Word_1, <<Semicolon>>>>, Space)

\* if ( a ) S
BareIf(S) ==
    <<KeywordText("IfKeyword"), <<OpenParen>>, Word_a, <<CloseParen>>>> \o S

\* func f ( b : int ) : void { if ( a ) return ; }
IfReturnSample ==
    InFunc(BareIf(<<KeywordText("ReturnKeyword"), <<Semicolon>>>>))

\* { if ( a ) a = 1 ; else b = 1 ; }
IfElseSample ==
    InBlock(BareIf(<<Word_a, <<Equals>>, Word_1, <<Semicolon>>>>)
                \o <<KeywordText("ElseKeyword"), Word_b, <<Equals>>, Word_1,
                     <<Semicolon>>>>)

\* { if ( a ) { a ; } else if ( a ) { b ; } }
ElseIfSample ==
    InBlock(InIf(<<Word_a, <<Semicolon>>>>)
                \o <<KeywordText("ElseKeyword")>>
                \o BareIf(InBlock(<<Word_b, <<Semicolon>>>>)))

\* if statements whose branches are not blocks, in a block or a function body
IfSamples == { IfReturnSample, IfElseSample, ElseIfSample }

\* { f ( a , b + 1 ) ; }
CallSample ==
    InBlock(<<Word_f, <<OpenParen>>, Word_a, <<Comma>>, Word_b, <<Plus>>,
              Word_1, <<CloseParen>>, <<Semicolon>>>>)

\* func f ( a : int , b : int ) : int { let c = 1 ; return a + b ; }
FuncSample ==
    <<KeywordText("FuncKeyword"), Word_f, <<OpenParen>>, Word_a, <<Colon>>,
      KeywordText("IntKeyword"), <<Comma>>, Word_b, <<Colon>>,
      KeywordText("IntKeyword"), <<CloseParen>>, <<Colon>>,
      KeywordText("IntKeyword")>>
        \o InBlock(<<KeywordText("LetKeyword"), Word_c, <<Equals>>, Word_1,
                     <<Semicolon>>, KeywordText("ReturnKeyword"), Word_a,
                     <<Plus>>, Word_b, <<Semicolon>>>>)

\* texts that end in an open block: {   { a ;   { { }   func f ( ) : int {
UnfinishedBlocks ==
    { <<<<OpenBrace>>>>,
      <<<<OpenBrace>>, Word_a, <<Semicolon>>>>,
      <<<<OpenBrace>>, <<OpenBrace>>, <<CloseBrace>>>>,
      <<KeywordText("FuncKeyword"), Word_f, <<OpenParen>>, <<CloseParen>>,
        <<Colon>>, KeywordText("IntKeyword"), <<OpenBrace>>>> }

\* texts that end where a branch of an if statement is to follow:
\* { if ( a )   { if ( a ) { } else
UnfinishedIfs ==
    { <<<<OpenBrace>>>> \o BareIf(<<>>),
      <<<<OpenBrace>>>> \o InIf(<<>>) \o <<KeywordText("ElseKeyword")>> }

\* texts with a token where a statement is to begin that starts neither a
\* statement nor an expression: )   { ; }   { : }   { a ; else }
NoStatements ==
    { <<<<CloseParen>>>>,
      InBlock(<<<<Semicolon>>>>),
      InBlock(<<<<Colon>>>>),
      InBlock(<<Word_a, <<Semicolon>>, KeywordText("ElseKeyword")>>) }

\* expressions that begin with + - or ( and expressions of literals:
\* { + a ; }   { - 1 ; }   { ( a ) ; }   { a = - b ; }   { f ( + a ) ; }
\* func f ( b : int ) : void { return - 1 ; }   { a = true ; }   { false + 1 ; }
UnarySamples ==
    { InBlock(<<<<Plus>>, Word_a, <<Semicolon>>>>),
      InBlock(<<<<Minus>>, Word_1, <<Semicolon>>>>),
      InBlock(<<<<OpenParen>>, Word_a, <<CloseParen>>, <<Semicolon>>>>),
      InBlock(<<Word_a, <<Equals>>, <<Minus>>, Word_b, <<Semicolon>>>>),
      InBlock(<<Word_f, <<OpenParen>>, <<Plus>>, Word_a, <<CloseParen>>,
                <<Semicolon>>>>),
      InFunc(<<KeywordText("ReturnKeyword"), <<Minus>>, Word_1,
               <<Semicolon>>>>) }

LiteralSamples ==
    { InBlock(<<Word_a, <<Equals>>, KeywordText("TrueKeyword"),
                <<Semicolon>>>>),
      InBlock(<<KeywordText("FalseKeyword"), <<Plus>>, Word_1,
                <<Semicolon>>>>) }

\* one statement, or two statements on two lines
Programs ==
    { Join(S, Space) : S \in Statements(MaxNest) \cup IfSamples
                                \cup { CallSample, FuncSample } }
        \cup { Join(S, Space) \o <<LineFeed>> \o Join(T, Space) :
                 S \in Statements(MaxNest - 1) \cup { FuncSample },
                 T \in Leaves }
        \cup ExpressionPrograms
        \cup { Join(S, Space) :
                 S \in UnfinishedBlocks \cup UnfinishedIfs \cup NoStatements
                           \cup UnarySamples \cup LiteralSamples }
        \cup { LetSample, <<>> }

\* the values the four fields of a scanner of the text t can have
ScannerStates(t) ==
    [ pos : 0..Len(t), tokenStart : 0..Len(t), line : 1..(Len(t) + 1),
      lineStart : 0..Len(t) ]

\* the parser and its scanner as the parse methods take them: scanner is
\* this.scanner.nextToken, what the call returns and how it leaves the
\* fields, for every value of the fields
ParseState ==
    [ scanner |-> [ st \in ScannerStates(text) |-> nextToken(text, st) ],
      sc |-> Current, stateStack |-> stateStack,
      token |-> parser.token,
      context |-> parser.context, contextStack |-> parser.contextStack,
      parent |-> parser.parent, parentStack |-> parser.parentStack,
      nodes |-> parser.nodes, err |-> parser.error,
      node |-> 0, flag |-> FALSE, peeked |-> NoElem, list |-> <<>>,
      events |-> parser.events, restored |-> parser.restored,
      diagnostics |-> parser.diagnostics ]

\* the parser and its scanner are left as in s
Becomes(s, phase) ==
    /\ pos' = s.sc.pos
    /\ tokenStart' = s.sc.tokenStart
    /\ line' = s.sc.line
    /\ lineStart' = s.sc.lineStart
    /\ stateStack' = s.stateStack
    /\ parser' = [ parser EXCEPT !.phase = phase,
                                 !.token = s.token,
                                 !.context = s.context,
                                 !.contextStack = s.contextStack,
                                 !.parent = s.parent,
                                 !.parentStack = s.parentStack,
                                 !.nodes = s.nodes,
                                 !.error = s.err,
                                 !.events = s.events,
                                 !.restored = s.restored,
                                 !.diagnostics = s.diagnostics ]

InitParse ==
    /\ text \in Programs
    /\ InitScanner

\* parseFile up to its loop: the scanner, the SourceFile, parent and context
ParseFileBegin ==
    /\ parser.phase = "idle"
    /\ parser' = [ parser EXCEPT !.phase = "parsing",
                                 !.nodes = <<NodeConstructor("SourceFile", 0, 0)>>,
                                 !.sourceFile = 1,
                                 !.parent = 1,
                                 !.context = SourceElements ]
    /\ UNCHANGED <<text, pos, tokenStart, line, lineStart, stateStack, frames,
                   status, ret, eofEver, output>>

\* parseFile is left by an error, or never: the scanner does not return
Abandoned(s) ==
    Becomes(s, IF s.err.type = "never returns" THEN "hung" ELSE "thrown")

\* err.printDiagnostic(sourceFile): the diagnostic of the error is written
printDiagnostic(s) ==
    IF s.err.type \in { "UnholySyntaxError", "UnholyParserError" }
    THEN [ s EXCEPT !.diagnostics = Append(@, s.err) ]
    ELSE s

\* one turn of the loop of parseFile: consume() in the condition of the
\* while, outside of the try, and unless the file ends, parseStatement() and
\* the push in the try.  Every error a parse method raises is an
\* UnholySyntaxError or an UnholyParserError, which the catch prints and
\* throws again.
ParseTopLevel ==
    /\ parser.phase = "parsing"
    /\ With(consume(ParseState, <<>>), LAMBDA c :
       IF Failed(c) THEN Abandoned(c)
       ELSE IF c.token.kind = "EndOfFileToken" THEN Becomes(c, "ended")
       ELSE With(parseStatement(c), LAMBDA st :
            IF Failed(st) THEN Abandoned(printDiagnostic(st))
            ELSE Becomes([ st EXCEPT !.nodes[parser.sourceFile].statements =
                                         Append(@, st.node) ],
                         "parsing")))
    /\ UNCHANGED <<text, frames, status, ret, eofEver, output>>

\* parseFile after its loop: the two stacks are emptied, with a warning, if
\* they are not empty; the SourceFile is returned
ParseFileReturn ==
    /\ parser.phase = "ended"
    /\ parser' = [ parser EXCEPT !.phase = "returned",
                                 !.warned = Len(parser.contextStack) # 0
                                               \/ Len(parser.parentStack) # 0,
                                 !.contextStack = <<>>,
                                 !.parentStack = <<>> ]
    /\ UNCHANGED <<text, pos, tokenStart, line, lineStart, stateStack, frames,
                   status, ret, eofEver, output>>

NextParse ==
    \/ ParseFileBegin
    \/ ParseTopLevel
    \/ ParseFileReturn

SpecParse == InitParse /\ [][NextParse]_vars

-----------------------------------------------------------------------------
(* Properties of the expressions parseFile makes *)

\* the token an operator is scanned as when the scanner knows it
OperatorKind(word) ==
    CASE word = <<Equals>> -> "EqualsToken"
      [] word = <<Plus>> -> "PlusToken"
      [] word = <<Minus>> -> "MinusToken"
      [] word = <<LessThan>> -> "LessThanToken"
      [] word = <<GreaterThan>> -> "GreaterThanToken"
      [] word = <<Equals, Equals>> -> "EqualsEqualsToken"
      [] OTHER -> "AsteriskToken"

\* a ops[1] b ops[2] c ...
RECURSIVE ChainOf(_)
ChainOf(ops) ==
    IF Len(ops) = 0 THEN <<OperandAt(1)>>
    ELSE ChainOf(SubSeq(ops, 1, Len(ops) - 1))
             \o <<ops[Len(ops)], OperandAt(Len(ops) + 1)>>

\* { a ops[1] b ops[2] c ... ; }
ChainProgram(ops) == Join(InBlock(ChainOf(ops) \o <<<<Semicolon>>>>), Space)

\* the sequences of one to MaxOperands - 1 operators out of S
OperatorChains(S) == UNION { [ 1..n -> S ] : n \in 1..(MaxOperands - 1) }

\* an expression as a term: (kind text) or (operator left right)
RECURSIVE Shape(_)
Shape(n) ==
    IF parser.nodes[n].kind = "BinaryExpression"
    THEN <<parser.nodes[parser.nodes[n].operatorToken].kind,
           Shape(parser.nodes[n].left), Shape(parser.nodes[n].right)>>
    ELSE <<parser.nodes[n].kind, parser.nodes[n].text>>

Operand(i) == <<"Identifier", OperandAt(i)>>

\* ((a ops[1] b) ops[2] c) ...
RECURSIVE LeftNested(_)
LeftNested(ops) ==
    IF Len(ops) = 0 THEN Operand(1)
    ELSE <<OperatorKind(ops[Len(ops)]),
           LeftNested(SubSeq(ops, 1, Len(ops) - 1)),
           Operand(Len(ops) + 1)>>

\* (... ops[i] (... ops[i + 1] ...)) from the i-th operand on
RECURSIVE RightNested(_, _)
RightNested(ops, i) ==
    IF i > Len(ops) THEN Operand(i)
    ELSE <<OperatorKind(ops[i]), Operand(i), RightNested(ops, i + 1)>>

\* the expression of the first statement of the first top-level block
ExpressionParsed ==
    parser.nodes[
        parser.nodes[parser.nodes[parser.sourceFile].statements[1]]
            .statements[1]].expression

\* parseFile has returned, thrown, or been left in a call that never returns
Finished == parser.phase \in { "returned", "thrown", "hung" }

\* C13: an assignment chain is parsed right-associatively: `a = b = c` gives
\* (= a (= b c)), and the right operand of every `=` is the whole rest of
\* the chain.
C13_AssignmentRightAssociative ==
    \A ops \in OperatorChains({ <<Equals>> }) :
        (text = ChainProgram(ops) /\ Finished) =>
            /\ parser.phase = "returned"
            /\ Shape(ExpressionParsed) = RightNested(ops, 1)

\* C14: operators of equal precedence are parsed left-associatively: with
\* op1 and op2 both out of + and -, or both out of < and >, `a op1 b op2 c`
\* gives (op2 (op1 a b) c).
C14_EqualPrecedenceLeftAssociative ==
    \A ops \in OperatorChains({ <<Plus>>, <<Minus>> })
                   \cup OperatorChains({ <<LessThan>>, <<GreaterThan>> }) :
        (text = ChainProgram(ops) /\ Finished) =>
            /\ parser.phase = "returned"
            /\ Shape(ExpressionParsed) = LeftNested(ops)

\* `a + b - c` has been parsed, and its root is the - whose left operand is
\* the + expression
C14_Witness ==
    /\ text = ChainProgram(<<<<Plus>>, <<Minus>>>>)
    /\ parser.phase = "returned"
    /\ parser.nodes[parser.nodes[ExpressionParsed].operatorToken].kind
           = "MinusToken"
    /\ parser.nodes[parser.nodes[ExpressionParsed].left].kind
           = "BinaryExpression"
    /\ parser.nodes[parser.nodes[ExpressionParsed].right].kind = "Identifier"

\* C15: operators bind by the precedence table: when lo has the lower
\* precedence, `a lo b hi c` gives (lo a (hi b c)) and `a hi b lo c` gives
\* (lo (hi a b) c); so `a + b * c` gives (+ a (* b c)) and `a == b + c`
\* gives (== a (+ b c)).
C15_PrecedenceBinding ==
    \A lo \in OperatorWords, hi \in OperatorWords :
        getBinaryOperatorPrecedence(OperatorKind(lo))
                < getBinaryOperatorPrecedence(OperatorKind(hi)) =>
            /\ (text = ChainProgram(<<lo, hi>>) /\ Finished) =>
                   /\ parser.phase = "returned"
                   /\ Shape(ExpressionParsed) = RightNested(<<lo, hi>>, 1)
            /\ (text = ChainProgram(<<hi, lo>>) /\ Finished) =>
                   /\ parser.phase = "returned"
                   /\ Shape(ExpressionParsed) = LeftNested(<<hi, lo>>)

-----------------------------------------------------------------------------
(* Properties of the tree parseFile returns *)

\* the nodes a node holds in its fields
Children(n) ==
    ({ parser.nodes[n].declaration, parser.nodes[n].name, parser.nodes[n].type,
       parser.nodes[n].initializer, parser.nodes[n].body,
       parser.nodes[n].condition, parser.nodes[n].thenStatement,
       parser.nodes[n].elseStatement, parser.nodes[n].expression,
       parser.nodes[n].left, parser.nodes[n].operatorToken,
       parser.nodes[n].right, parser.nodes[n].callee }
      \cup { parser.nodes[n].statements[i] :
               i \in 1..Len(parser.nodes[n].statements) }
      \cup { parser.nodes[n].params[i] : i \in 1..Len(parser.nodes[n].params) }
      \cup { parser.nodes[n].args[i] : i \in 1..Len(parser.nodes[n].args) })
        \ { 0 }

\* the node and all the nodes below it
RECURSIVE Descendants(_)
Descendants(n) == { n } \cup UNION { Descendants(c) : c \in Children(n) }

\* the nodes of the tree below the SourceFile
NonRoot == Descendants(parser.sourceFile) \ { parser.sourceFile }

\* C16: in the tree of a successful parseFile every node but the SourceFile
\* has its parent set, IfStatement nodes and operator tokens included.
C16_ParentSet ==
    parser.phase = "returned" =>
        \A n \in NonRoot : parser.nodes[n].parent # 0

\* C17: in the tree of a successful parseFile every node n but the root,
\* with parent p, has p.pos <= n.pos and n.pos + n.length <= p.pos +
\* p.length, all four numbers being defined.
C17_ChildWithinParent ==
    parser.phase = "returned" =>
        \A n \in NonRoot :
            parser.nodes[n].parent # 0 =>
                /\ parser.nodes[n].pos >= 0
                /\ parser.nodes[n].length >= 0
                /\ parser.nodes[parser.nodes[n].parent].pos >= 0
                /\ parser.nodes[parser.nodes[n].parent].length >= 0
                /\ parser.nodes[parser.nodes[n].parent].pos
                       <= parser.nodes[n].pos
                /\ parser.nodes[n].pos + parser.nodes[n].length
                       <= parser.nodes[parser.nodes[n].parent].pos
                              + parser.nodes[parser.nodes[n].parent].length

-----------------------------------------------------------------------------
(* Properties of the parsing context *)

\* the calls of a parse method so far, by their place in the history
Calls(method) ==
    { i \in 1..Len(parser.events) : parser.events[i].method = method }

\* the call was made below a node of the kind
Below(i, kind) == InSeq(kind, parser.events[i].ancestors)

\* the call is the one that threw "not allowed in this context"
Refused(i) ==
    /\ parser.phase = "thrown"
    /\ parser.error.type = "UnholyParserError"
    /\ parser.error.msg = "not allowed in this context"
    /\ parser.error.elem = parser.events[i].token
    /\ i = Len(parser.events)

C19_ReturnOnlyInFunction ==
    \A i \in Calls("parseReturnStatement") :
        /\ Below(i, "FuncDeclaration")
               <=> parser.events[i].context
                       = BitOr(FuncDeclarations, BlockStatements)
        /\ Below(i, "FuncDeclaration") => ~Refused(i)
        /\ ~Below(i, "FuncDeclaration") => Refused(i)

\* a file has been parsed in which a return lies in an if statement in a
\* function body
C19_Witness ==
    /\ parser.phase = "returned"
    /\ \E i \in Calls("parseReturnStatement") :
           /\ Below(i, "IfStatement")
           /\ Below(i, "FuncDeclaration")
    /\ \E n \in NonRoot : parser.nodes[n].kind = "ReturnStatement"

\* C20: a function declaration is accepted only when the context is exactly
\* SourceElements: at top level it is parsed, in any block, the body of
\* another function included, it raises an error; and while the declaration
\* is parsed the SourceElements flag is not set.
C20_FunctionOnlyAtTopLevel ==
    /\ \A i \in Calls("parseFuncDeclarationStatement") :
           /\ parser.events[i].ancestors = <<"SourceFile">>
                  <=> parser.events[i].context = SourceElements
           /\ parser.events[i].context = SourceElements => ~Refused(i)
           /\ parser.events[i].context # SourceElements => Refused(i)
    /\ \A i \in 1..Len(parser.events) :
           Below(i, "FuncDeclarationStatement") =>
               BitAnd(parser.events[i].context, SourceElements) = 0

\* a function declaration in the body of another function has been refused
C20_Witness ==
    \E i \in Calls("parseFuncDeclarationStatement") :
        /\ Below(i, "FuncDeclaration")
        /\ Below(i, "BlockStatement")
        /\ Refused(i)
        /\ \E j \in Calls("parseFuncDeclarationStatement") :
               j < i /\ parser.events[j].context = SourceElements

\* the calls of parseIfStatement and of parseExpressionStatement so far
BlockOnlyCalls ==
    Calls("parseIfStatement") \cup Calls("parseExpressionStatement")

\* C21: if statements and expression statements are accepted only when the
\* BlockStatements flag is set in the context: directly at top level they
\* raise "not allowed in this context", in any block the context check
\* accepts them.
C21_BlockStatementsOnly ==
    \A i \in BlockOnlyCalls :
        /\ Refused(i) <=> BitAnd(parser.events[i].context, BlockStatements) = 0
        /\ parser.events[i].ancestors = <<"SourceFile">> => Refused(i)
        /\ Below(i, "BlockStatement") => ~Refused(i)

\* an if statement with an expression statement in it has been accepted in
\* the block that is the body of a function
C21_Witness ==
    /\ parser.phase = "returned"
    /\ \E i \in Calls("parseIfStatement") :
       \E j \in Calls("parseExpressionStatement") :
           /\ i < j
           /\ Below(i, "FuncDeclaration")
           /\ Below(j, "IfStatement")

-----------------------------------------------------------------------------
(* assertContext called in every context *)

\* the sets of flags of ParsingContextFlags, as numbers
FlagSets == 0..(2 * ArgExpressions - 1)

\* a Parser on an empty text, in any context
InitAssertContext ==
    /\ text = <<>>
    /\ pos = 0
    /\ tokenStart = 0
    /\ line = 1
    /\ lineStart = 0
    /\ stateStack = <<>>
    /\ frames = <<>>
    /\ status = "ready"
    /\ ret = NoRet
    /\ eofEver = FALSE
    /\ output = <<>>
    /\ \E context \in FlagSets :
           parser = [ NoParser EXCEPT !.phase = "parsing",
                                      !.context = context ]

\* assertContext(required, loose): ret tells the call and whether it threw
AssertContextCall ==
    /\ ret.op = "none"
    /\ \E required \in FlagSets, loose \in BOOLEAN :
           With(assertContext(ParseState, required, loose), LAMBDA s :
               /\ Becomes(s, IF Failed(s) THEN "thrown" ELSE "parsing")
               /\ ret' = [ op |-> "assertContext", required |-> required,
                           loose |-> loose,
                           outcome |-> IF Failed(s) THEN "throw"
                                       ELSE "return" ])
    /\ UNCHANGED <<text, frames, status, eofEver, output>>

NextAssertContext == AssertContextCall

SpecAssertContext == InitAssertContext /\ [][NextAssertContext]_vars

-----------------------------------------------------------------------------
(* consume, consumeOptional, speculate and peek called on token texts *)

\* the words of the texts
LookaheadWords ==
    { Word_a, Word_1, <<Plus>>, <<Equals>>, <<Comma>>, <<OpenBrace>>, <<42>> }

\* one to MaxTokens words with a blank between them
LookaheadTexts ==
    { Join(ws, Space) :
        ws \in UNION { [ 1..n -> LookaheadWords ] : n \in 1..MaxTokens } }

\* the kinds of the operators of getBinaryOperatorPrecedence
BinaryOperatorKinds ==
    { "AsteriskToken", "SlashToken", "PercentToken", "PlusToken", "MinusToken",
      "GreaterThanToken", "LessThanToken", "EqualsEqualsToken", "EqualsToken" }

\* the sets of kinds consumeOptional is called with, and speculate's callback
\* asks for
KindSets ==
    { { "CommaToken" }, { "OpenBraceToken" }, { "ElseKeyword" },
      { "Identifier", "IntegerLiteral" }, BinaryOperatorKinds }

InitLookahead ==
    /\ text \in LookaheadTexts
    /\ pos = 0
    /\ tokenStart = 0
    /\ line = 1
    /\ lineStart = 0
    /\ stateStack = <<>>
    /\ frames = <<>>
    /\ status = "ready"
    /\ ret = NoRet
    /\ eofEver = FALSE
    /\ output = <<>>
    /\ parser = [ NoParser EXCEPT !.phase = "parsing" ]

\* what a call tells: the method, its argument, what it returned
Told(s, op, kinds) ==
    ret' = [ op |-> op, kinds |-> kinds, flag |-> s.flag, peeked |-> s.peeked,
             outcome |-> IF Failed(s) THEN "throw" ELSE "return" ]

\* the parser is left as the call left it
Called(s) == Becomes(s, IF Failed(s) THEN "thrown" ELSE "parsing")

\* consume()
ConsumeCall ==
    /\ parser.phase = "parsing"
    /\ With(consume(ParseState, <<>>), LAMBDA s :
           Called(s) /\ Told(s, "consume", {}))
    /\ UNCHANGED <<text, frames, status, eofEver, output>>

\* consumeOptional(...tokenKinds)
ConsumeOptionalCall ==
    /\ parser.phase = "parsing"
    /\ \E tokenKinds \in KindSets :
           With(consumeOptional(ParseState, tokenKinds), LAMBDA s :
               Called(s) /\ Told(s, "consumeOptional", tokenKinds))
    /\ UNCHANGED <<text, frames, status, eofEver, output>>

\* speculate(token => the kind of token is one of kinds)
SpeculateCall ==
    /\ parser.phase = "parsing"
    /\ \E kinds \in KindSets :
           With(speculate(ParseState, LAMBDA token : token.kind \in kinds),
                LAMBDA s : Called(s) /\ Told(s, "speculate", kinds))
    /\ UNCHANGED <<text, frames, status, eofEver, output>>

\* peek()
PeekCall ==
    /\ parser.phase = "parsing"
    /\ With(peek(ParseState), LAMBDA s : Called(s) /\ Told(s, "peek", {}))
    /\ UNCHANGED <<text, frames, status, eofEver, output>>

NextLookahead ==
    \/ ConsumeCall
    \/ ConsumeOptionalCall
    \/ SpeculateCall
    \/ PeekCall

SpecLookahead == InitLookahead /\ [][NextLookahead]_vars

\* the scanner is left where it was, with the same stack of stored states
ScannerUnchanged == UNCHANGED <<pos, tokenStart, line, lineStart, stateStack>>

\* the scanner is left past the token nextToken returns from its state
ScannerAdvanced ==
    /\ Current' = nextToken(text, Current).st
    /\ stateStack' = stateStack

\* C23: consumeOptional(kinds) and speculate(pred) move the scanner past the
\* next token and make it the current token if and only if its kind is in
\* kinds (pred holds of it), and leave the scanner and the current token as
\* they were otherwise; peek() changes neither the scanner nor the current
\* token.
C23_SpeculationCommitsOnMatch ==
    [][ /\ (ret'.op \in { "consumeOptional", "speculate" }
               /\ ret'.outcome = "return") =>
                IF nextToken(text, Current).elem.kind \in ret'.kinds
                THEN /\ ret'.flag
                     /\ ScannerAdvanced
                     /\ parser'.token = nextToken(text, Current).elem
                ELSE /\ ~ret'.flag
                     /\ ScannerUnchanged
                     /\ parser'.token = parser.token
        /\ (ret'.op = "peek" /\ ret'.outcome = "return") =>
                /\ ret'.peeked = nextToken(text, Current).elem
                /\ ScannerUnchanged
                /\ parser'.token = parser.token ]_vars

\* consumeOptional has returned false on a token that is not of its kinds:
\* the current token is still the identifier consumed before, and the scanner
\* is where it was after it
C23_Witness ==
    /\ ret.op = "consumeOptional"
    /\ ret.outcome = "return"
    /\ ~ret.flag
    /\ parser.token.kind = "Identifier"
    /\ pos = parser.token.pos + parser.token.length
    /\ pos < Len(text)
    /\ stateStack = <<>>

-----------------------------------------------------------------------------
(* Properties of a parseFile that fails *)

\* C24: every lexical or parse error raised while parseFile runs, also a
\* lexical error of the scanner at the first token of a top-level statement,
\* has its diagnostic printed exactly once before parseFile rejects with the
\* error; nothing is parsed after it and no SourceFile is returned.
C24_ErrorDiagnosedOnce ==
    /\ parser.phase = "thrown" =>
           /\ parser.error.type \in { "UnholySyntaxError", "UnholyParserError" }
           /\ parser.diagnostics = <<parser.error>>
           /\ ~ENABLED NextParse
    /\ parser.phase # "thrown" => parser.diagnostics = <<>>

\* C25: when parseFile fails with a lexical or parse error, the context
\* stack and the parent stack are empty afterwards, as the next parseFile
\* call on the Parser finds them.
C25_StacksResetOnFailure ==
    parser.phase = "thrown" =>
        /\ parser.contextStack = <<>>
        /\ parser.parentStack = <<>>

-----------------------------------------------------------------------------
(* Properties of the statements parseFile makes *)

\* the kind of a node, "none" where there is no node
KindOf(n) == IF n = 0 THEN "none" ELSE parser.nodes[n].kind

\* the tree has an IfStatement with branches of these kinds
HasIf(thenKind, elseKind) ==
    \E n \in NonRoot :
        /\ parser.nodes[n].kind = "IfStatement"
        /\ KindOf(parser.nodes[n].thenStatement) = thenKind
        /\ KindOf(parser.nodes[n].elseStatement) = elseKind

\* the text has been parsed to a tree with such an IfStatement
ParsedToIf(sample, thenKind, elseKind) ==
    (text = Join(sample, Space) /\ Finished) =>
        /\ parser.phase = "returned"
        /\ HasIf(thenKind, elseKind)

\* C26: in a block an if statement takes any statement as its then branch
\* and as its else branch, not only a block: `if (c) return;`, `if (c) x = 1;
\* else y = 2;` and `if (c) {...} else if (d) {...}` are parsed to an
\* IfStatement with that statement as thenStatement or elseStatement.
C26_IfBranchAnyStatement ==
    /\ ParsedToIf(IfReturnSample, "ReturnStatement", "none")
    /\ ParsedToIf(IfElseSample, "ExpressionStatement", "ExpressionStatement")
    /\ ParsedToIf(ElseIfSample, "BlockStatement", "IfStatement")

\* { f ( args ) ; }
CallProgram(args) ==
    Join(InBlock(<<Word_f, <<OpenParen>>>> \o args
                     \o <<<<CloseParen>>, <<Semicolon>>>>), Space)

\* the argument lists of the calls parsed, with the terms of the arguments
CallSamples ==
    { <<<<>>, <<>>>>,
      <<<<Word_a, <<Comma>>, Word_1>>,
        <<<<"Identifier", Word_a>>, <<"IntegerLiteral", Word_1>>>>>>,
      <<<<Word_a, <<Comma>>, Word_b, <<Plus>>, Word_1>>,
        <<<<"Identifier", Word_a>>,
          <<"PlusToken", <<"Identifier", Word_b>>,
            <<"IntegerLiteral", Word_1>>>>>>>> }

\* the terms of the arguments of a call
ArgShapes(n) ==
    [ i \in 1..Len(parser.nodes[n].args) |-> Shape(parser.nodes[n].args[i]) ]

\* C27: an identifier followed by `(` is parsed to a CallExpression with the
\* identifier as callee and the arguments between the commas, in source
\* order, as args; the `)` is consumed with the call, also when there is no
\* argument: `f();` and `f(a, b + 1);` are accepted as expression statements
\* in a block.
C27_CallExpression ==
    \A sample \in CallSamples :
        (text = CallProgram(sample[1]) /\ Finished) =>
            /\ parser.phase = "returned"
            /\ parser.nodes[ExpressionParsed].kind = "CallExpression"
            /\ Shape(parser.nodes[ExpressionParsed].callee)
                   = <<"Identifier", Word_f>>
            /\ ArgShapes(ExpressionParsed) = sample[2]

\* let a = 1 ;
LetLeaf ==
    <<KeywordText("LetKeyword"), Word_a, <<Equals>>, Word_1, <<Semicolon>>>>

\* function declarations with no, one and two parameters, each with its
\* name, its parameters (name and type), its return type and the kinds of the
\* statements of its body
FuncSamples ==
    { <<<<KeywordText("FuncKeyword"), Word_f, <<OpenParen>>, <<CloseParen>>,
          <<Colon>>, KeywordText("IntKeyword"), <<OpenBrace>>, <<CloseBrace>>>>,
        <<Word_f, <<>>, "IntKeyword", <<>>>>>>,
      <<InFunc(<<Word_a, <<Semicolon>>>>),
        <<Word_f, <<<<Word_b, "IntKeyword">>>>, "VoidKeyword",
          <<"ExpressionStatement">>>>>>,
      <<FuncSample,
        <<Word_f, <<<<Word_a, "IntKeyword">>, <<Word_b, "IntKeyword">>>>,
          "IntKeyword", <<"VarDeclarationStatement", "ReturnStatement">>>>>> }

\* name and type of a parameter
ParamShape(n) ==
    <<parser.nodes[parser.nodes[n].name].text, KindOf(parser.nodes[n].type)>>

\* name, parameters, return type and body of the function declared by the
\* FuncDeclarationStatement n
FuncShape(n) ==
    <<parser.nodes[parser.nodes[parser.nodes[n].declaration].name].text,
      [ i \in 1..Len(parser.nodes[parser.nodes[n].declaration].params) |->
          ParamShape(parser.nodes[parser.nodes[n].declaration].params[i]) ],
      KindOf(parser.nodes[parser.nodes[n].declaration].type),
      [ i \in 1..Len(parser.nodes[parser.nodes[parser.nodes[n].declaration]
                                      .body].statements) |->
          KindOf(parser.nodes[parser.nodes[parser.nodes[n].declaration].body]
                     .statements[i]) ]>>

\* the statements parseFile has pushed to the SourceFile
TopLevel == parser.nodes[parser.sourceFile].statements

\* C28: a top-level `func name(p1: T1, ..., pn: Tn): T { ... }`, n from 0,
\* is parsed to one FuncDeclarationStatement whose declaration has the n
\* ParameterDeclarations in source order, the return type T and a
\* BlockStatement body with the statements of the body in source order;
\* the parser is then just past the closing `}` and a following top-level
\* statement is parsed normally.
C28_FuncDeclaration ==
    \A sample \in FuncSamples :
        text \in { Join(sample[1], Space),
                   Join(sample[1], Space) \o <<LineFeed>>
                       \o Join(LetLeaf, Space) } =>
            /\ parser.phase \notin { "thrown", "hung" }
            /\ (parser.phase \in { "parsing", "ended", "returned" }
                    /\ Len(TopLevel) >= 1) =>
                   /\ KindOf(TopLevel[1]) = "FuncDeclarationStatement"
                   /\ KindOf(parser.nodes[TopLevel[1]].declaration)
                          = "FuncDeclaration"
                   /\ KindOf(parser.nodes[parser.nodes[TopLevel[1]]
                                              .declaration].body)
                          = "BlockStatement"
                   /\ FuncShape(TopLevel[1]) = sample[2]
            /\ (parser.phase = "parsing" /\ Len(TopLevel) = 1) =>
                   /\ parser.token.kind = "CloseBraceToken"
                   /\ pos = Len(Join(sample[1], Space))
            /\ parser.phase = "returned" =>
                   IF text = Join(sample[1], Space)
                   THEN Len(TopLevel) = 1
                   ELSE /\ Len(TopLevel) = 2
                        /\ KindOf(TopLevel[2]) = "VarDeclarationStatement"

\* the function of two parameters and two statements has been parsed, and
\* the let statement on the line after it
C28_Witness ==
    /\ text = Join(FuncSample, Space) \o <<LineFeed>> \o Join(LetLeaf, Space)
    /\ parser.phase = "returned"
    /\ Len(TopLevel) = 2
    /\ Len(parser.nodes[parser.nodes[TopLevel[1]].declaration].params) = 2

-----------------------------------------------------------------------------
(* getBinaryOperatorPrecedence called on every kind *)

\* types/syntax: SyntaxKind, with the three kinds utils/parser-utils names
SyntaxKinds ==
    { "Unknown", "EndOfFileToken", "OpenBraceToken", "CloseBraceToken",
      "OpenParenToken", "CloseParenToken", "SemicolonToken", "ColonToken",
      "CommaToken", "PlusToken", "MinusToken", "LessThanToken",
      "GreaterThanToken", "EqualsToken", "EqualsEqualsToken",
      "AsteriskToken", "SlashToken", "PercentToken",
      "IntegerLiteral", "Identifier",
      "BoolKeyword", "ElseKeyword", "FalseKeyword", "FuncKeyword",
      "LetKeyword", "IfKeyword", "IntKeyword", "ReturnKeyword", "TrueKeyword",
      "VoidKeyword",
      "VarDeclaration", "FuncDeclaration", "CallExpression",
      "BinaryExpression", "BlockStatement", "DeclarationStatement",
      "EmptyStatement", "ExpressionStatement", "IfStatement",
      "ReturnStatement", "SourceFile" }

\* doc/operator-precedence.md: the precedence the table lists for a binary
\* operator, -1 for a kind that is none
DocPrecedence(operator) ==
    CASE operator \in { "AsteriskToken", "SlashToken", "PercentToken" } -> 13
      [] operator \in { "PlusToken", "MinusToken" } -> 12
      [] operator \in { "LessThanToken", "GreaterThanToken" } -> 10
      [] operator = "EqualsEqualsToken" -> 9
      [] operator = "EqualsToken" -> 2
      [] OTHER -> -1

\* the precedences parseBinaryExpressionRest is called with: 0 and those of
\* the operators
Precedences ==
    { 0 } \cup { getBinaryOperatorPrecedence(k) : k \in BinaryOperatorKinds }

\* a Parser whose current token is of any kind
InitPrecedence ==
    /\ text = <<>>
    /\ pos = 0
    /\ tokenStart = 0
    /\ line = 1
    /\ lineStart = 0
    /\ stateStack = <<>>
    /\ frames = <<>>
    /\ status = "ready"
    /\ ret = NoRet
    /\ eofEver = FALSE
    /\ output = <<>>
    /\ \E kind \in SyntaxKinds :
           parser = [ NoParser EXCEPT !.phase = "parsing",
                                      !.token = [ NoElem EXCEPT !.kind = kind ] ]

\* the test of the loop of parseBinaryExpressionRest:
\* getBinaryOperatorPrecedence(this.token.kind) > precedence
PrecedenceCall ==
    /\ ret.op = "none"
    /\ \E precedence \in Precedences :
           ret' = [ op |-> "getBinaryOperatorPrecedence",
                    operator |-> parser.token.kind,
                    precedence |-> precedence,
                    newPrecedence |->
                        getBinaryOperatorPrecedence(parser.token.kind),
                    binds |-> getBinaryOperatorPrecedence(parser.token.kind)
                                  > precedence ]
    /\ UNCHANGED <<text, pos, tokenStart, line, lineStart, stateStack, frames,
                   status, eofEver, output, parser>>

NextPrecedence == PrecedenceCall

SpecPrecedence == InitPrecedence /\ [][NextPrecedence]_vars

\* C29: for every binary operator getBinaryOperatorPrecedence returns the
\* precedence doc/operator-precedence.md lists for it, and for every kind
\* that is no binary operator it returns -1.
C29_PrecedenceAsDocumented ==
    ret.op = "getBinaryOperatorPrecedence" =>
        ret.newPrecedence = DocPrecedence(ret.operator)

-----------------------------------------------------------------------------
(* Properties of the positions in the tree parseFile returns *)

\* the nodes in a sequence of fields, without the fields that are not set
Set_(ns) == SelectSeq(ns, LAMBDA n : n # 0)

\* the children of a node in the order of the source text
ChildSeq(n) ==
    Set_(<<parser.nodes[n].declaration, parser.nodes[n].name>>)
        \o parser.nodes[n].params
        \o Set_(<<parser.nodes[n].type, parser.nodes[n].initializer,
                  parser.nodes[n].body, parser.nodes[n].condition,
                  parser.nodes[n].thenStatement, parser.nodes[n].elseStatement,
                  parser.nodes[n].expression, parser.nodes[n].callee>>)
        \o parser.nodes[n].args
        \o Set_(<<parser.nodes[n].left, parser.nodes[n].operatorToken,
                  parser.nodes[n].right>>)
        \o parser.nodes[n].statements

\* the node, then the nodes below each of its children, child after child
RECURSIVE PreOrder(_)
RECURSIVE PreOrderOfAll(_)
PreOrderOfAll(ns) ==
    IF Len(ns) = 0 THEN <<>>
    ELSE PreOrder(ns[1]) \o PreOrderOfAll(Tail(ns))

PreOrder(n) == <<n>> \o PreOrderOfAll(ChildSeq(n))

\* the pos of the nodes of the tree in pre-order, those without a pos left out
PreOrderPos ==
    SelectSeq([ i \in 1..Len(PreOrder(parser.sourceFile)) |->
                  parser.nodes[PreOrder(parser.sourceFile)[i]].pos ],
              LAMBDA p : p >= 0)

\* C30: in the tree of a successful parseFile the pos values of the nodes in
\* pre-order, parent before children and children in source order, never
\* decrease.
C30_PreOrderPosNonDecreasing ==
    parser.phase = "returned" =>
        \A i \in 1..(Len(PreOrderPos) - 1) : PreOrderPos[i] <= PreOrderPos[i + 1]

-----------------------------------------------------------------------------
(* Properties of the end of parseFile *)

\* C31: for every source text parseFile comes to an end, by returning the
\* SourceFile or by raising an error: no nextToken call it makes goes on for
\* ever, whatever characters the text holds.
C31_ParseFileTerminates ==
    parser.phase # "hung"

-----------------------------------------------------------------------------
(* Properties of the pos and length of the nodes made of one token *)

\* the offset of the first character of line l, counted from 1
StartOfLine(t, l) ==
    IF l = 1 THEN 0
    ELSE CHOOSE k \in 1..Len(t) :
             /\ t[k] = LineFeed
             /\ Cardinality({ j \in 1..k : t[j] = LineFeed }) = l - 1

\* the nodes of the tree that are made of one token: identifiers, literals,
\* type keywords and operator tokens
TokenNodes ==
    { n \in NonRoot :
        HasTokenString(parser.nodes[n].kind)
            \/ parser.nodes[n].kind \in { "Identifier", "IntegerLiteral" } }

\* the offset of the token a node was made of: the line and column of the
\* node are those of the token
TokenPosOf(n) ==
    StartOfLine(text, parser.nodes[n].line) + parser.nodes[n].column - 1

\* C32: the pos of a node is the offset of its first character: a node made
\* of the token t has pos equal to t.pos, and the length of an Identifier or
\* an IntegerLiteral is the distance from there to the end of the token, the
\* length of its text.
C32_NodePosIsTokenPos ==
    parser.phase = "returned" =>
        \A n \in TokenNodes :
            /\ parser.nodes[n].pos = TokenPosOf(n)
            /\ parser.nodes[n].kind \in { "Identifier", "IntegerLiteral" } =>
                   parser.nodes[n].length = Len(parser.nodes[n].text)

-----------------------------------------------------------------------------
(* Properties of a text that ends early or holds no statement *)

\* parseFile has come to its end, one way or the other
Over == parser.phase \notin { "idle", "parsing" }

\* parseFile was left by a parse error with this message
RaisedParseError(msg) ==
    /\ parser.phase = "thrown"
    /\ parser.error.type = "UnholyParserError"
    /\ parser.error.msg = msg

\* C33: a text that ends while a block is still open, or where a statement
\* is required (the branch of an if statement), ends parseFile with the
\* parse error "Unexpected end of file"; a token that starts neither a
\* statement nor an expression where a statement is to begin ends it with
\* the parse error "Not a statement".
C33_UnexpectedEndOfFile ==
    /\ (Over /\ \E S \in UnfinishedBlocks \cup UnfinishedIfs :
                   text = Join(S, Space))
           => RaisedParseError("Unexpected end of file")
    /\ (Over /\ \E S \in NoStatements : text = Join(S, Space))
           => RaisedParseError("Not a statement")

-----------------------------------------------------------------------------
(* scanDigits called on runs of digits and letters *)

\* the numerical bases scanDigits takes
Radixes == { 2, 8, 10, 16 }

\* the characters of the texts: 1 7 9 f F z and the space
DigitAlphabet == { Char_1, Char_7, Char_9, Char_f, Char_F, Char_z, Space }

\* the digits of a numerical base
DigitsOf(radix) ==
    CASE radix = 2 -> Char_0..Char_1
      [] radix = 8 -> Char_0..Char_7
      [] radix = 10 -> Char_0..Char_9
      [] radix = 16 -> (Char_0..Char_9) \cup (Char_a..Char_f)
                           \cup (Char_A..Char_F)

InitDigits ==
    /\ text \in Texts(DigitAlphabet, MaxDigits)
    /\ InitScanner

\* this.scanDigits(radix), with the character at the current position an
\* allowed digit, as its callers are to see to
ScanDigitsCall ==
    /\ status = "ready"
    /\ \E radix \in Radixes :
          /\ charCodeAt(text, pos) \in DigitsOf(radix)
          /\ SetState(scanDigits(text, Current, radix).st)
          /\ ret' = [ op |-> "scanDigits", outcome |-> "return",
                      radix |-> radix, from |-> Current,
                      str |-> scanDigits(text, Current, radix).str ]
    /\ UNCHANGED <<text, stateStack, frames, status, eofEver, output, parser>>

NextDigits ==
    \/ ScanDigitsCall
    \/ NextToken

SpecDigits == InitDigits /\ [][NextDigits]_vars

\* the end of the longest run of digits of the base from offset p
DigitRunEnd(t, p, radix) ==
    CHOOSE q \in p..Len(t) :
        /\ \A k \in (p + 1)..q : t[k] \in DigitsOf(radix)
        /\ q = Len(t) \/ t[q + 1] \notin DigitsOf(radix)

\* C34: scanDigits(radix), started on an allowed digit, takes the longest
\* run of digits of the base (0-1, 0-7, 0-9, 0-9a-fA-F), stops before the
\* first other character and returns the text it took; the digits of a base
\* are digits of every greater base; an IntegerLiteral is the longest run of
\* decimal digits.
C34_ScanDigitsMaximalRun ==
    /\ ret.op = "scanDigits" =>
           /\ pos = DigitRunEnd(text, ret.from.pos, ret.radix)
           /\ pos > ret.from.pos
           /\ ret.str = SubSeq(text, ret.from.pos + 1, pos)
           /\ line = ret.from.line
           /\ lineStart = ret.from.lineStart
           /\ tokenStart = ret.from.tokenStart
    /\ \A c \in 0..MaxAscii : \A radix \in Radixes :
           isDigitOfRadix(c, radix) <=> c \in DigitsOf(radix)
    /\ (ret.op = "nextToken" /\ ret.outcome = "return"
            /\ ret.elem.kind = "IntegerLiteral") =>
           /\ pos = DigitRunEnd(text, ret.elem.pos, 10)
           /\ ret.elem.rawText = SubSeq(text, ret.elem.pos + 1, pos)
           /\ ret.elem.length = Len(ret.elem.rawText)

\* scanDigits(8) stopped at a 9 after two digits, and scanDigits(16) took
\* small and capital letters
C34_Witness ==
    /\ ret.op = "scanDigits"
    /\ \/ /\ ret.radix = 8
          /\ pos = ret.from.pos + 2
          /\ charCodeAt(text, pos) = Char_9
       \/ /\ ret.radix = 16
          /\ ret.str = <<Char_f, Char_F>>
          /\ charCodeAt(text, pos) = Char_z

-----------------------------------------------------------------------------
(* Properties of the expressions that begin with + - or ( *)

\* the nodes a node holds as expressions
ExpressionsOf(n) ==
    ({ parser.nodes[n].expression, parser.nodes[n].condition,
       parser.nodes[n].initializer, parser.nodes[n].left,
       parser.nodes[n].right }
      \cup { parser.nodes[n].args[i] : i \in 1..Len(parser.nodes[n].args) })
        \ { 0 }

\* C35: an expression that begins with + - or ( passes the test of
\* parseExpression and ends parseFile with the parse error "Unexpected token"
\* at that token; in a returned tree every expression is a BinaryExpression
\* or an Identifier, a CallExpression, an IntegerLiteral or a true or false
\* literal, so that these are at every leaf.
C35_NoUnaryExpression ==
    /\ (Over /\ \E S \in UnarySamples : text = Join(S, Space)) =>
           /\ RaisedParseError("Unexpected token")
           /\ parser.error.elem.kind
                  \in { "PlusToken", "MinusToken", "OpenParenToken" }
           /\ Calls("parseExpression") # {}
    /\ parser.phase = "returned" =>
           \A n \in NonRoot \cup { parser.sourceFile } :
               \A e \in ExpressionsOf(n) :
                   parser.nodes[e].kind
                       \in { "BinaryExpression", "Identifier",
                             "CallExpression", "IntegerLiteral",
                             "TrueKeyword", "FalseKeyword" }

\* a unary minus on the right of an assignment passed the test of
\* parseExpression and was refused
C35_Witness ==
    /\ RaisedParseError("Unexpected token")
    /\ parser.error.elem.kind = "MinusToken"
    /\ parser.error.elem.pos > 2
    /\ Calls("parseExpression") # {}

-----------------------------------------------------------------------------
(* Properties of the stack of saved states *)

\* C36: the stack of saved states is used last in, first out and stays
\* balanced: while callbacks run it holds, in the order of the calls, the
\* state each lookAhead or tryScan call stored; when such a call returns
\* the stack is as deep as before the call, and a restore puts back the
\* state stored by the call that returns, nested calls included.
C36_StateStackBalanced ==
    /\ status = "ready" =>
           /\ Len(stateStack) = Len(frames)
           /\ \A i \in 1..Len(frames) : stateStack[i] = frames[i].entry
    /\ (ret.op \in { "lookAhead", "tryScan" } /\ ret.outcome = "return") =>
           /\ Len(stateStack) = ret.depth
           /\ (ret.op = "lookAhead" \/ ~ret.truthy) => Current = ret.from

\* a lookAhead or tryScan called inside a callback, whose own callback moved
\* the scanner, returned, and the state of the outer call is still stored
C36_Witness ==
    /\ ret.op \in { "lookAhead", "tryScan" }
    /\ ret.outcome = "return"
    /\ ret.depth = 1
    /\ ret.mid.pos > ret.from.pos
    /\ Len(stateStack) = 1
    /\ stateStack[1].pos < ret.from.pos

-----------------------------------------------------------------------------
(* Properties of the parent of the nodes in the tree parseFile returns *)

\* the nodes of the tree of a kind
OfKind(kind) ==
    { n \in NonRoot \cup { parser.sourceFile } : parser.nodes[n].kind = kind }

\* C37: in the tree of a successful parseFile a node whose parent is set is
\* held by a field or a list of that very parent: the operands and the
\* operator token of a BinaryExpression have it as parent, not the statement
\* around it, the callee and the arguments of a call have the CallExpression,
\* the body of a function its FuncDeclaration, and the top-level statements
\* the SourceFile.
C37_ParentHoldsChild ==
    parser.phase = "returned" =>
        /\ \A p \in NonRoot \cup { parser.sourceFile } :
               \A c \in Children(p) :
                   parser.nodes[c].parent # 0 => parser.nodes[c].parent = p
        /\ \A n \in NonRoot :
               parser.nodes[n].parent # 0 =>
                   n \in Children(parser.nodes[n].parent)
        /\ \A b \in OfKind("BinaryExpression") :
               /\ parser.nodes[parser.nodes[b].left].parent = b
               /\ parser.nodes[parser.nodes[b].operatorToken].parent = b
               /\ parser.nodes[parser.nodes[b].right].parent = b
        /\ \A c \in OfKind("CallExpression") :
               /\ parser.nodes[parser.nodes[c].callee].parent = c
               /\ \A i \in 1..Len(parser.nodes[c].args) :
                      parser.nodes[parser.nodes[c].args[i]].parent = c
        /\ \A f \in OfKind("FuncDeclaration") :
               parser.nodes[parser.nodes[f].body].parent = f

\* a tree was returned in which a BinaryExpression, the parent of its left
\* operand, is an argument of a call or the value of a return statement
C37_Witness ==
    /\ parser.phase = "returned"
    /\ \E b \in OfKind("BinaryExpression") :
          /\ parser.nodes[parser.nodes[b].parent].kind
                 \in { "CallExpression", "ReturnStatement" }
          /\ parser.nodes[parser.nodes[b].left].kind = "Identifier"
          /\ parser.nodes[parser.nodes[b].left].parent = b

-----------------------------------------------------------------------------
(* Properties of the fields of the scanner after nextToken *)

\* C38: after every nextToken call that returns, 0 <= lineStart <=
\* tokenStart <= pos <= end, so that the token returned, EndOfFileToken
\* included, has column >= 1 and length >= 0; and a call that returns a
\* token other than EndOfFileToken leaves pos greater than it found it.
C38_ScannerFieldsOrdered ==
    (ret.op = "nextToken" /\ ret.outcome = "return") =>
        /\ 0 <= lineStart
        /\ lineStart <= tokenStart
        /\ tokenStart <= pos
        /\ pos <= End(text)
        /\ ret.elem.column >= 1
        /\ ret.elem.length >= 0
        /\ ret.elem.kind # "EndOfFileToken" => pos > ret.from.pos

-----------------------------------------------------------------------------
(* getLineContent called between the nextToken calls *)

\* the characters of the texts: line feed, a, = and the space
LineAlphabet == { LineFeed, Char_a, Equals, Space }

InitLine ==
    /\ text \in Texts(LineAlphabet, MaxLen)
    /\ InitScanner

\* scanner.getLineContent(), in any state nextToken left the scanner in
GetLineContentCall ==
    /\ status = "ready"
    /\ ret.op # "getLineContent"
    /\ ret' = [ op |-> "getLineContent",
                outcome |-> getLineContent(text, Current).type,
                str |-> getLineContent(text, Current).str ]
    /\ status' = IF getLineContent(text, Current).type = "return"
                 THEN "ready" ELSE "hung"
    /\ UNCHANGED <<text, pos, tokenStart, line, lineStart, stateStack, frames,
                   eofEver, output, parser>>

NextLine ==
    \/ GetLineContentCall
    \/ NextToken

SpecLine == InitLine /\ [][NextLine]_vars

\* the offset of the first line feed at or after offset p, or the end of the
\* text
LineEndFrom(t, p) ==
    CHOOSE q \in p..Len(t) :
        /\ \A k \in (p + 1)..q : t[k] # LineFeed
        /\ q = Len(t) \/ t[q + 1] = LineFeed

\* C39: getLineContent returns in every state the scanner can be in, on the
\* last line of a text without a line feed at its end too, and returns the
\* text of the current line only: from lineStart up to the next line feed,
\* which is left out, also when pos is at that line feed.
C39_LineContent ==
    ret.op = "getLineContent" =>
        /\ ret.outcome = "return"
        /\ ret.str = SubSeq(text, lineStart + 1, LineEndFrom(text, lineStart))

-----------------------------------------------------------------------------
(* Two parseFile calls on one Parser that overlap *)

\* the files read: { a ; }   let a = 1 ;   func f ( ) : int { }
\* { return ; }   a ;   { a * b ; }   { a ; } and let a = 1 ; on two lines,
\* a carriage return in a block, and the empty file
OverlapFiles ==
    { Join(InBlock(<<Word_a, <<Semicolon>>>>), Space),
      Join(<<KeywordText("LetKeyword"), Word_a, <<Equals>>, Word_1,
             <<Semicolon>>>>, Space),
      Join(<<KeywordText("FuncKeyword"), Word_f, <<OpenParen>>, <<CloseParen>>,
             <<Colon>>, KeywordText("IntKeyword"), <<OpenBrace>>,
             <<CloseBrace>>>>, Space),
      Join(InBlock(<<KeywordText("ReturnKeyword"), <<Semicolon>>>>), Space),
      Join(<<Word_a, <<Semicolon>>>>, Space),
      Join(InBlock(<<Word_a, <<42>>, Word_b, <<Semicolon>>>>), Space),
      Join(InBlock(<<Word_a, <<Semicolon>>>>), Space) \o <<LineFeed>>
          \o Join(<<KeywordText("LetKeyword"), Word_a, <<Equals>>, Word_1,
                    <<Semicolon>>>>, Space),
      Join(InBlock(<<<<CarriageReturn>>>>), Space),
      <<>> }

\* where a parseFile call stands when it awaits in the loop over the
\* statements too
AwaitsInLoop == { "reading", "parsing" }

\* where a parseFile call stands when it awaits: at the read of the file
\* only.  The code after it has no await and runs to its end before any
\* other code of the program is run.
Awaits == { "reading" }

\* a parseFile call that awaits the text of its file
NewCall(file) ==
    [ file |-> file, at |-> "reading", nodes |-> <<>>, error |-> NoError ]

\* the nodes of the heap from the SourceFile sf on, numbered from 1
TreeOf(nodes, sf) ==
    [ j \in 1..(Len(nodes) - sf + 1) |->
        LET n == nodes[sf + j - 1]
            sh(x) == IF x = 0 THEN 0 ELSE x - (sf - 1)
            shs(q) == [ i \in 1..Len(q) |-> sh(q[i]) ]
        IN  [ n EXCEPT !.parent = sh(@), !.declaration = sh(@),
                       !.name = sh(@), !.type = sh(@), !.initializer = sh(@),
                       !.body = sh(@), !.condition = sh(@),
                       !.thenStatement = sh(@), !.elseStatement = sh(@),
                       !.expression = sh(@), !.left = sh(@),
                       !.operatorToken = sh(@), !.right = sh(@),
                       !.callee = sh(@), !.statements = shs(@),
                       !.params = shs(@), !.args = shs(@) ] ]

\* how the call whose code was run last stands, and what it has made
Running ==
    [ file |-> text,
      at |-> IF parser.phase = "ended" THEN "parsing" ELSE parser.phase,
      nodes |-> TreeOf(parser.nodes, parser.sourceFile),
      error |-> parser.error ]

\* how call i stands
CallOf(i) == IF parser.running = i THEN Running ELSE parser.calls[i]

\* two calls parser.parseFile(fileName) have been made on a new Parser and
\* have reached their await
InitOverlap ==
    /\ text = <<>>
    /\ pos = 0
    /\ tokenStart = 0
    /\ line = 1
    /\ lineStart = 0
    /\ stateStack = <<>>
    /\ frames = <<>>
    /\ status = "ready"
    /\ ret = NoRet
    /\ eofEver = FALSE
    /\ output = <<>>
    /\ \E f1 \in OverlapFiles, f2 \in OverlapFiles :
          parser = [ NoParser EXCEPT !.calls = <<NewCall(f1), NewCall(f2)>> ]

\* the read of call i is over and the call goes on, which it can when no
\* other call is in the middle of its code: parseFile from the await up to
\* its loop.  The fields parseFile assigns are set; token, contextStack and
\* parentStack are as the call before left them.
ReadDone(i) ==
    /\ parser.running # i
    /\ parser.calls[i].at = "reading"
    /\ \A j \in 1..Len(parser.calls) :
          j # i => CallOf(j).at \in Awaits \cup { "returned", "thrown" }
    /\ text' = parser.calls[i].file
    /\ pos' = 0
    /\ tokenStart' = 0
    /\ line' = 1
    /\ lineStart' = 0
    /\ stateStack' = <<>>
    /\ parser' = [ parser EXCEPT
                     !.phase = "parsing",
                     !.nodes = Append(@, NodeConstructor("SourceFile", 0, 0)),
                     !.sourceFile = Len(parser.nodes) + 1,
                     !.parent = Len(parser.nodes) + 1,
                     !.context = SourceElements,
                     !.error = NoError,
                     !.calls = [ j \in 1..Len(parser.calls) |->
                                   IF j = i
                                   THEN [ parser.calls[i] EXCEPT
                                            !.at = "parsing" ]
                                   ELSE CallOf(j) ],
                     !.running = i ]
    /\ UNCHANGED <<frames, status, ret, eofEver, output>>

NextOverlap ==
    \/ \E i \in 1..2 : ReadDone(i)
    \/ ParseTopLevel
    \/ ParseFileReturn

SpecOverlap == InitOverlap /\ [][NextOverlap]_vars

\* a new Parser, its Scanner on the text of the file, at the loop of
\* parseFile
FreshParser(file) ==
    [ scanner |-> [ st \in ScannerStates(file) |-> nextToken(file, st) ],
      sc |-> [ pos |-> 0, tokenStart |-> 0, line |-> 1, lineStart |-> 0 ],
      stateStack |-> <<>>, token |-> NoElem,
      context |-> SourceElements, contextStack |-> <<>>,
      parent |-> 1, parentStack |-> <<>>,
      nodes |-> <<NodeConstructor("SourceFile", 0, 0)>>, err |-> NoError,
      node |-> 0, flag |-> FALSE, peeked |-> NoElem, list |-> <<>>,
      events |-> <<>>, restored |-> TRUE, diagnostics |-> <<>> ]

\* the loop of parseFile run to its end
RECURSIVE parseFileLoop(_)
parseFileLoop(s) ==
    With(consume(s, <<>>), LAMBDA c :
    IF Failed(c) THEN c
    ELSE IF c.token.kind = "EndOfFileToken" THEN c
    ELSE With(parseStatement(c), LAMBDA st :
         IF Failed(st) THEN st
         ELSE parseFileLoop([ st EXCEPT !.nodes[1].statements =
                                            Append(@, st.node) ])))

\* what parseFile of a new Parser makes of the file
Fresh(file) == parseFileLoop(FreshParser(file))

\* C40: parseFile awaits only the read of its file, before it writes any
\* field, so of two calls on one Parser that overlap never both are in the
\* middle of scanning and parsing, and each call that returns, returns the
\* tree of its own file, the same tree a new Parser returns for the file
\* (and a call that is left by an error is left by the error a new Parser
\* raises).
C40_CallsDoNotInterleave ==
    /\ ~(CallOf(1).at = "parsing" /\ CallOf(2).at = "parsing")
    /\ \A i \in 1..2 :
          /\ CallOf(i).at = "returned" =>
                 /\ ~Failed(Fresh(CallOf(i).file))
                 /\ CallOf(i).nodes = Fresh(CallOf(i).file).nodes
          /\ CallOf(i).at = "thrown" =>
                 CallOf(i).error = Fresh(CallOf(i).file).err

\* the first call was left by an error inside a block, with entries on the
\* two stacks, and the call that went on after it has returned a tree of
\* two statements
C40_Witness ==
    /\ \E i \in 1..2 : CallOf(i).at = "thrown" /\ parser.running # i
    /\ parser.phase = "returned"
    /\ parser.warned
    /\ Len(Running.nodes[1].statements) = 2

=============================================================================
